---- MODULE Spec2Model ----
(***************************************************************************)
(* Model of the upstream mediation layer of dns-api-go:                    *)
(*   - the cached Bluecat session token and its lock (bluecat.token,       *)
(*     bluecat.tokenLock), getToken and MakeRequest, run by concurrent     *)
(*     request threads;                                                    *)
(*   - the entity gateway (BaseService.GetEntity / DeleteEntity) on top of *)
(*     the ServerInterface.MakeRequest abstraction.                        *)
(***************************************************************************)
EXTENDS Integers, Sequences, FiniteSets, TLC

\* ------------------------------------------------------------------ bounds
NumThreads == 2          \* concurrent request threads
MaxCalls == 2            \* MakeRequest calls started in a run, over all threads
MaxAttempts == 3         \* upstream requests sent in a run, over all calls

Threads == 1..NumThreads

\* ------------------------------------------------------- program constants
StatusOK == 200
StatusUnauthorized == 401
StatusServerError == 500
NetErr == 0              \* client.Do returned an error: there is no status
NoToken == 0             \* the empty string ""
Unlocked == 0

\* what the upstream may answer to one attempt
Statuses == {StatusOK, StatusUnauthorized, StatusServerError, NetErr}

VARIABLES
    token,        \* bluecat.token: NoToken or the number of the session
    tokenLock,    \* bluecat.tokenLock: Unlocked or the holding thread
    nLogin,       \* login exchanges issued so far (successful or not)
    anyLoginFail, \* has a login exchange failed
    any401,       \* has a 401 response been received
    okSinceInval, \* successful logins since the token was last empty by clearing
    unguarded,    \* threads that touched bluecat.token without holding the lock
    pc,           \* per thread: position inside MakeRequest / getToken
    calls,        \* MakeRequest calls started so far
    sent,         \* upstream requests sent so far
    tok,          \* per thread: local `token` of MakeRequest
    gtErr,        \* per thread: did the last getToken return an error
    gtLogin,      \* per thread: did the last getToken issue a login exchange
    attempts,     \* per thread: upstream attempts of the current call
    resps,        \* per thread: statuses received in the current call
    invals,       \* per thread: token clears done by the current call
    loginsAfter,  \* per thread: login exchanges by the current call after its first clear
    result,       \* per thread: what the current call returned
    bodyRead,     \* per thread: bytes already read from the body reader of the call
    sentReqs,     \* per thread: the requests the current call put on the wire
    cancelled,    \* per thread: has the caller of the current call gone away
    gwOp,         \* entity gateway: the operation last run and its inputs
    gwCalls,      \* entity gateway: upstream calls that operation issued
    gwOut         \* entity gateway: what it returned

execVars == <<token, tokenLock, nLogin, anyLoginFail, any401, okSinceInval, unguarded,
              pc, calls, sent, tok, gtErr, gtLogin, attempts, resps, invals, loginsAfter, result,
              bodyRead, sentReqs, cancelled>>
reqVars == <<bodyRead, sentReqs, cancelled>>
gwVars == <<gwOp, gwCalls, gwOut>>
vars == <<token, tokenLock, nLogin, anyLoginFail, any401, okSinceInval, unguarded,
          pc, calls, sent, tok, gtErr, gtLogin, attempts, resps, invals, loginsAfter, result,
          bodyRead, sentReqs, cancelled, gwOp, gwCalls, gwOut>>

\* ----------------------------------------------------------------- results
NoResult == [kind |-> "none", status |-> 0, body |-> 0]
OkResult(b) == [kind |-> "ok", status |-> StatusOK, body |-> b]
SendError == [kind |-> "SendError", status |-> 0, body |-> 0]
UpstreamError(st, b) == [kind |-> "UpstreamError", status |-> st, body |-> b]

\* the body of the response to the k-th attempt of a call: bodies only
\* identify the response they came with
Body(k) == k

\* records an access to bluecat.token by thread t
Touch(t) == IF tokenLock = t THEN unguarded ELSE unguarded \cup {t}

\* ------------------------------------------------------------ requests
\* the call a thread makes: thread 1 runs UpdateEntity (PUT /update with the
\* entity in wire form read from a strings.Reader), the others a lookup
\* without a body
UpdateBody == <<"i", "d", "7">>
RequestOf(t) ==
    IF t = 1
      THEN [method |-> "PUT", route |-> "/update", queryParam |-> "", body |-> UpdateBody]
      ELSE [method |-> "GET", route |-> "/getEntityById", queryParam |-> "id=7",
            body |-> <<>>]

\* http.NewRequest and client.Do on the arguments of MakeRequest: the request
\* carries what is left to read in the body reader
OnWire(req, read, authorization) ==
    [method |-> req.method, route |-> req.route, queryParam |-> req.queryParam,
     body |-> SubSeq(req.body, read + 1, Len(req.body)),
     authorization |-> authorization]

\* ------------------------------------------------------------ Init
Init ==
    /\ token = NoToken
    /\ tokenLock = Unlocked
    /\ nLogin = 0
    /\ anyLoginFail = FALSE
    /\ any401 = FALSE
    /\ okSinceInval = 0
    /\ unguarded = {}
    /\ pc = [t \in Threads |-> "idle"]
    /\ calls = 0
    /\ sent = 0
    /\ tok = [t \in Threads |-> NoToken]
    /\ gtErr = [t \in Threads |-> FALSE]
    /\ gtLogin = [t \in Threads |-> FALSE]
    /\ attempts = [t \in Threads |-> 0]
    /\ resps = [t \in Threads |-> <<>>]
    /\ invals = [t \in Threads |-> 0]
    /\ loginsAfter = [t \in Threads |-> 0]
    /\ result = [t \in Threads |-> NoResult]
    /\ bodyRead = [t \in Threads |-> 0]
    /\ sentReqs = [t \in Threads |-> <<>>]
    /\ cancelled = [t \in Threads |-> FALSE]
    /\ gwOp = [op |-> "none", id |-> 0, expected |-> {}, reply |-> [kind |-> "err", wire |-> [id |-> 0, name |-> <<>>, type |-> <<>>, properties |-> <<>>]], delErr |-> FALSE]
    /\ gwCalls = <<>>
    /\ gwOut = [kind |-> "none", entity |-> <<>>]

\* ------------------------------------------------------------ MakeRequest
\* a handler calls MakeRequest
MakeRequest(t) ==
    /\ pc[t] \in {"idle", "done"}
    /\ calls < MaxCalls
    /\ calls' = calls + 1
    /\ pc' = [pc EXCEPT ![t] = "gt_lock"]
    /\ tok' = [tok EXCEPT ![t] = NoToken]
    /\ gtErr' = [gtErr EXCEPT ![t] = FALSE]
    /\ gtLogin' = [gtLogin EXCEPT ![t] = FALSE]
    /\ attempts' = [attempts EXCEPT ![t] = 0]
    /\ resps' = [resps EXCEPT ![t] = <<>>]
    /\ invals' = [invals EXCEPT ![t] = 0]
    /\ loginsAfter' = [loginsAfter EXCEPT ![t] = 0]
    /\ result' = [result EXCEPT ![t] = NoResult]
    /\ UNCHANGED <<token, tokenLock, nLogin, anyLoginFail, any401, okSinceInval, unguarded, sent>>
    /\ UNCHANGED gwVars
    /\ bodyRead' = [bodyRead EXCEPT ![t] = 0]
    /\ sentReqs' = [sentReqs EXCEPT ![t] = <<>>]
    /\ cancelled' = [cancelled EXCEPT ![t] = FALSE]

\* getToken without waiting for the lock
GetTokenLock_NoWait(t) ==
    /\ pc[t] = "gt_lock"
    /\ tokenLock' = t
    /\ pc' = [pc EXCEPT ![t] = "gt_check"]
    /\ gtLogin' = [gtLogin EXCEPT ![t] = FALSE]
    /\ gtErr' = [gtErr EXCEPT ![t] = FALSE]
    /\ UNCHANGED <<token, nLogin, anyLoginFail, any401, okSinceInval, unguarded,
                   calls, sent, tok, attempts, resps, invals, loginsAfter, result>>
    /\ UNCHANGED gwVars
    /\ UNCHANGED reqVars

\* getToken: s.bluecat.tokenLock.Lock()
GetTokenLock(t) ==
    /\ pc[t] = "gt_lock"
    /\ tokenLock = Unlocked
    /\ tokenLock' = t
    /\ pc' = [pc EXCEPT ![t] = "gt_check"]
    /\ gtLogin' = [gtLogin EXCEPT ![t] = FALSE]
    /\ gtErr' = [gtErr EXCEPT ![t] = FALSE]
    /\ UNCHANGED <<token, nLogin, anyLoginFail, any401, okSinceInval, unguarded,
                   calls, sent, tok, attempts, resps, invals, loginsAfter, result>>
    /\ UNCHANGED gwVars
    /\ UNCHANGED reqVars

\* getToken that logs in whatever the cache holds
GetTokenCheck_AlwaysLogin(t) ==
    /\ pc[t] = "gt_check"
    /\ unguarded' = Touch(t)
    /\ pc' = [pc EXCEPT ![t] = "gt_login"]
    /\ tok' = tok
    /\ UNCHANGED <<token, tokenLock, nLogin, anyLoginFail, any401, okSinceInval,
                   calls, sent, gtErr, gtLogin, attempts, resps, invals, loginsAfter, result>>
    /\ UNCHANGED gwVars
    /\ UNCHANGED reqVars

\* getToken: if s.bluecat.token == "" { ... } return s.bluecat.token, nil
GetTokenCheck(t) ==
    /\ pc[t] = "gt_check"
    /\ unguarded' = Touch(t)
    /\ IF token = NoToken
         THEN /\ pc' = [pc EXCEPT ![t] = "gt_login"]
              /\ tok' = tok
         ELSE /\ pc' = [pc EXCEPT ![t] = "gt_unlock"]
              /\ tok' = [tok EXCEPT ![t] = token]
    /\ UNCHANGED <<token, tokenLock, nLogin, anyLoginFail, any401, okSinceInval,
                   calls, sent, gtErr, gtLogin, attempts, resps, invals, loginsAfter, result>>
    /\ UNCHANGED gwVars
    /\ UNCHANGED reqVars

\* getToken that stores what a failed login exchange returned
GenerateAuthToken_CacheFailure(t) ==
    /\ pc[t] = "gt_login"
    /\ nLogin' = nLogin + 1
    /\ gtLogin' = [gtLogin EXCEPT ![t] = TRUE]
    /\ loginsAfter' = [loginsAfter EXCEPT ![t] = IF invals[t] > 0 THEN @ + 1 ELSE @]
    /\ pc' = [pc EXCEPT ![t] = "gt_unlock"]
    /\ token' = nLogin + 1
    /\ tok' = [tok EXCEPT ![t] = nLogin + 1]
    /\ unguarded' = Touch(t)
    /\ \E ok \in BOOLEAN :
         /\ gtErr' = [gtErr EXCEPT ![t] = ~ok]
         /\ okSinceInval' = IF ok THEN okSinceInval + 1 ELSE okSinceInval
         /\ anyLoginFail' = (anyLoginFail \/ ~ok)
    /\ UNCHANGED <<tokenLock, any401, calls, sent, attempts, resps, invals, result>>
    /\ UNCHANGED gwVars
    /\ UNCHANGED reqVars

\* getToken: token, err := s.generateAuthToken(...); on error return "", err,
\* otherwise s.bluecat.token = token.  A login exchange fails on a transport
\* error, an unreadable body or a status other than 200; a successful one
\* yields the session token cut out of the body, a new non-empty one each time.
GenerateAuthToken(t) ==
    /\ pc[t] = "gt_login"
    /\ nLogin' = nLogin + 1
    /\ gtLogin' = [gtLogin EXCEPT ![t] = TRUE]
    /\ loginsAfter' = [loginsAfter EXCEPT ![t] = IF invals[t] > 0 THEN @ + 1 ELSE @]
    /\ pc' = [pc EXCEPT ![t] = "gt_unlock"]
    /\ \E ok \in BOOLEAN :
         IF ok
           THEN /\ token' = nLogin + 1
                /\ tok' = [tok EXCEPT ![t] = nLogin + 1]
                /\ gtErr' = [gtErr EXCEPT ![t] = FALSE]
                /\ okSinceInval' = okSinceInval + 1
                /\ unguarded' = Touch(t)
                /\ anyLoginFail' = anyLoginFail
           ELSE /\ token' = token
                /\ tok' = [tok EXCEPT ![t] = NoToken]
                /\ gtErr' = [gtErr EXCEPT ![t] = TRUE]
                /\ okSinceInval' = okSinceInval
                /\ unguarded' = unguarded
                /\ anyLoginFail' = TRUE
    /\ UNCHANGED <<tokenLock, any401, calls, sent, attempts, resps, invals, result>>
    /\ UNCHANGED gwVars
    /\ UNCHANGED reqVars

\* getToken that keeps the lock when the login failed
GetTokenUnlock_KeepLockOnError(t) ==
    /\ pc[t] = "gt_unlock"
    /\ tokenLock' = IF gtErr[t] THEN tokenLock ELSE Unlocked
    /\ pc' = [pc EXCEPT ![t] = "send"]
    /\ UNCHANGED <<token, nLogin, anyLoginFail, any401, okSinceInval, unguarded,
                   calls, sent, tok, gtErr, gtLogin, attempts, resps, invals, loginsAfter, result>>
    /\ UNCHANGED gwVars
    /\ UNCHANGED reqVars

\* getToken: the deferred s.bluecat.tokenLock.Unlock() on return.  MakeRequest
\* drops the error of getToken (err is reassigned by http.NewRequest) and goes on.
GetTokenUnlock(t) ==
    /\ pc[t] = "gt_unlock"
    /\ tokenLock' = Unlocked
    /\ pc' = [pc EXCEPT ![t] = "send"]
    /\ UNCHANGED <<token, nLogin, anyLoginFail, any401, okSinceInval, unguarded,
                   calls, sent, tok, gtErr, gtLogin, attempts, resps, invals, loginsAfter, result>>
    /\ UNCHANGED gwVars
    /\ UNCHANGED reqVars

\* MakeRequest that treats every non-success status as an expired token
SendRequest_RetryAnyError(t) ==
    /\ pc[t] = "send"
    /\ sent < MaxAttempts
    /\ sent' = sent + 1
    /\ attempts' = [attempts EXCEPT ![t] = @ + 1]
    /\ \E st \in Statuses :
         /\ resps' = [resps EXCEPT ![t] = Append(@, st)]
         /\ any401' = (any401 \/ st = StatusUnauthorized)
         /\ IF st = NetErr
              THEN /\ pc' = [pc EXCEPT ![t] = "done"]
                   /\ result' = [result EXCEPT ![t] = SendError]
              ELSE IF st # StatusOK
              THEN /\ pc' = [pc EXCEPT ![t] = "inv_lock"]
                   /\ result' = result
              ELSE /\ pc' = [pc EXCEPT ![t] = "done"]
                   /\ result' = [result EXCEPT ![t] = OkResult(Body(attempts[t] + 1))]
    /\ UNCHANGED <<token, tokenLock, nLogin, anyLoginFail, okSinceInval, unguarded,
                   calls, tok, gtErr, gtLogin, invals, loginsAfter>>
    /\ UNCHANGED gwVars
    /\ sentReqs' = [sentReqs EXCEPT ![t] = Append(@, OnWire(RequestOf(t), bodyRead[t], tok[t]))]
    /\ bodyRead' = [bodyRead EXCEPT ![t] = Len(RequestOf(t).body)]
    /\ UNCHANGED cancelled

\* MakeRequest: client.Do(req), read the body, branch on the status code
SendRequest(t) ==
    /\ pc[t] = "send"
    /\ sent < MaxAttempts
    /\ sent' = sent + 1
    /\ attempts' = [attempts EXCEPT ![t] = @ + 1]
    /\ \E st \in Statuses :
         /\ resps' = [resps EXCEPT ![t] = Append(@, st)]
         /\ any401' = (any401 \/ st = StatusUnauthorized)
         /\ IF st = NetErr
              THEN /\ pc' = [pc EXCEPT ![t] = "done"]
                   /\ result' = [result EXCEPT ![t] = SendError]
              ELSE IF st = StatusUnauthorized
              THEN /\ pc' = [pc EXCEPT ![t] = "inv_lock"]
                   /\ result' = result
              ELSE IF st # StatusOK
              THEN /\ pc' = [pc EXCEPT ![t] = "done"]
                   /\ result' = [result EXCEPT ![t] = UpstreamError(st, Body(attempts[t] + 1))]
              ELSE /\ pc' = [pc EXCEPT ![t] = "done"]
                   /\ result' = [result EXCEPT ![t] = OkResult(Body(attempts[t] + 1))]
    /\ UNCHANGED <<token, tokenLock, nLogin, anyLoginFail, okSinceInval, unguarded,
                   calls, tok, gtErr, gtLogin, invals, loginsAfter>>
    /\ UNCHANGED gwVars
    /\ sentReqs' = [sentReqs EXCEPT ![t] = Append(@, OnWire(RequestOf(t), bodyRead[t], tok[t]))]
    /\ bodyRead' = [bodyRead EXCEPT ![t] = Len(RequestOf(t).body)]
    /\ UNCHANGED cancelled

\* the 401 path without taking the lock
ClearLock_NoLock(t) ==
    /\ pc[t] = "inv_lock"
    /\ tokenLock' = tokenLock
    /\ pc' = [pc EXCEPT ![t] = "inv_clear"]
    /\ UNCHANGED <<token, nLogin, anyLoginFail, any401, okSinceInval, unguarded,
                   calls, sent, tok, gtErr, gtLogin, attempts, resps, invals, loginsAfter, result>>
    /\ UNCHANGED gwVars
    /\ UNCHANGED reqVars

\* MakeRequest on 401: s.bluecat.tokenLock.Lock()
ClearLock(t) ==
    /\ pc[t] = "inv_lock"
    /\ tokenLock = Unlocked
    /\ tokenLock' = t
    /\ pc' = [pc EXCEPT ![t] = "inv_clear"]
    /\ UNCHANGED <<token, nLogin, anyLoginFail, any401, okSinceInval, unguarded,
                   calls, sent, tok, gtErr, gtLogin, attempts, resps, invals, loginsAfter, result>>
    /\ UNCHANGED gwVars
    /\ UNCHANGED reqVars

\* the 401 path that leaves the rejected token in the cache
ClearToken_KeepToken(t) ==
    /\ pc[t] = "inv_clear"
    /\ token' = token
    /\ okSinceInval' = okSinceInval
    /\ unguarded' = Touch(t)
    /\ invals' = [invals EXCEPT ![t] = @ + 1]
    /\ pc' = [pc EXCEPT ![t] = "inv_unlock"]
    /\ UNCHANGED <<tokenLock, nLogin, anyLoginFail, any401,
                   calls, sent, tok, gtErr, gtLogin, attempts, resps, loginsAfter, result>>
    /\ UNCHANGED gwVars
    /\ UNCHANGED reqVars

\* MakeRequest on 401: s.bluecat.token = ""
ClearToken(t) ==
    /\ pc[t] = "inv_clear"
    /\ token' = NoToken
    /\ okSinceInval' = 0
    /\ unguarded' = Touch(t)
    /\ invals' = [invals EXCEPT ![t] = @ + 1]
    /\ pc' = [pc EXCEPT ![t] = "inv_unlock"]
    /\ UNCHANGED <<tokenLock, nLogin, anyLoginFail, any401,
                   calls, sent, tok, gtErr, gtLogin, attempts, resps, loginsAfter, result>>
    /\ UNCHANGED gwVars
    /\ UNCHANGED reqVars

\* MakeRequest on 401: s.bluecat.tokenLock.Unlock(); return s.MakeRequest(...)
ClearUnlock(t) ==
    /\ pc[t] = "inv_unlock"
    /\ tokenLock' = Unlocked
    /\ pc' = [pc EXCEPT ![t] = "gt_lock"]
    /\ UNCHANGED <<token, nLogin, anyLoginFail, any401, okSinceInval, unguarded,
                   calls, sent, tok, gtErr, gtLogin, attempts, resps, invals, loginsAfter, result>>
    /\ UNCHANGED gwVars
    /\ UNCHANGED reqVars

Step(t) ==
    \/ MakeRequest(t)
    \/ GetTokenLock(t)
    \/ GetTokenCheck(t)
    \/ GenerateAuthToken(t)
    \/ GetTokenUnlock(t)
    \/ SendRequest(t)
    \/ ClearLock(t)
    \/ ClearToken(t)
    \/ ClearUnlock(t)

Next == \E t \in Threads : Step(t)

Spec == Init /\ [][Next]_vars

\* one request thread at a time: the sequential runs of the executor
NextSeq == Step(1)

SpecSeq == Init /\ [][NextSeq]_vars

\* The client of the inbound request goes away while MakeRequest is running on
\* its behalf: the context of the inbound request is cancelled.  MakeRequest
\* takes (method, route, queryParam, body) and builds its request with
\* http.NewRequest, so nothing it does reads that context.
ClientDisconnect(t) ==
    /\ pc[t] \notin {"idle", "done"}
    /\ ~cancelled[t]
    /\ cancelled' = [cancelled EXCEPT ![t] = TRUE]
    /\ UNCHANGED <<token, tokenLock, nLogin, anyLoginFail, any401, okSinceInval, unguarded,
                   pc, calls, sent, tok, gtErr, gtLogin, attempts, resps, invals,
                   loginsAfter, result, bodyRead, sentReqs>>
    /\ UNCHANGED gwVars

\* one request thread whose client may disconnect at any point of the call
NextCancel == Step(1) \/ ClientDisconnect(1)

SpecCancel == Init /\ [][NextCancel]_vars

\* ============================================================ entity gateway
\* internal/types/types.go
CONFIGURATION == "Configuration"
ENTITY == "Entity"
CNAMERECORD == "AliasRecord"
EXTERNALHOST == "ExternalHostRecord"
HOSTRECORD == "HostRecord"
GENERICRECORD == "GenericRecord"
HINFORECORD == "HINFORecord"
MXRECORD == "MXRecord"
SRVRECORD == "SRVRecord"
TXTRECORD == "TXTRecord"
IP4ADDRESS == "IP4Address"
IP4BLOCK == "IP4Block"
IP4NETWORK == "IP4Network"
MACADDRESS == "MACAddress"
MACPOOL == "MACPool"
ZONE == "Zone"
DHCP4RANGE == "DHCP4Range"
VIEW == "View"

\* a nullable JSON field: None is null or absent, Some(x) a present value
None == <<>>
Some(x) == <<x>>

\* strings that the code takes apart are sequences of characters
PropStrings == { <<>>,
                 <<"a", "=", "x">>,
                 <<"a", "=", "x", "|", "b", "=", "y">> }

\* the wire entities the upstream is let to answer with
WireTypes == {CONFIGURATION, ENTITY, CNAMERECORD, EXTERNALHOST, HOSTRECORD, GENERICRECORD,
              HINFORECORD, MXRECORD, SRVRECORD, TXTRECORD, IP4ADDRESS, IP4BLOCK, IP4NETWORK,
              MACADDRESS, MACPOOL, ZONE, DHCP4RANGE, VIEW, "INVALIDTYPE"}
WireIds == {0, 1}
WireNames == {"host1"}
BluecatEntities ==
    [id : WireIds,
     name : {None} \cup {Some(n) : n \in WireNames},
     type : {None} \cup {Some(ty) : ty \in WireTypes},
     properties : {None} \cup {Some(ps) : ps \in PropStrings}]

EmptyWire == [id |-> 0, name |-> None, type |-> None, properties |-> None]

\* what ServerInterface.MakeRequest hands back to the gateway: an error, bytes
\* that do not decode, or bytes that decode to a BluecatEntity
Replies ==
    {[kind |-> "err", wire |-> EmptyWire], [kind |-> "badjson", wire |-> EmptyWire]}
      \cup {[kind |-> "json", wire |-> w] : w \in BluecatEntities}

RequestIds == {1, 2}
ExpectedSets == { {}, {HOSTRECORD}, {CNAMERECORD, HOSTRECORD, EXTERNALHOST},
                  {IP4NETWORK}, {IP4ADDRESS}, {MACADDRESS}, {ZONE} }

\* ---- common.ConvertToMap
\* index of the first occurrence of character c in q, 0 when there is none
RECURSIVE IndexFrom(_, _, _)
IndexFrom(q, c, i) ==
    IF i > Len(q) THEN 0
    ELSE IF q[i] = c THEN i
    ELSE IndexFrom(q, c, i + 1)

\* strings.Split(q, c) for a one-character separator
RECURSIVE Split(_, _)
Split(q, c) ==
    LET i == IndexFrom(q, c, 1) IN
    IF i = 0 THEN <<q>>
    ELSE <<SubSeq(q, 1, i - 1)>> \o Split(SubSeq(q, i + 1, Len(q)), c)

\* strings.SplitN(q, c, 2)
SplitN2(q, c) ==
    LET i == IndexFrom(q, c, 1) IN
    IF i = 0 THEN <<q>>
    ELSE <<SubSeq(q, 1, i - 1), SubSeq(q, i + 1, Len(q))>>

EmptyMap == [k \in {} |-> <<>>]
MapPut(m, k, v) == [x \in (DOMAIN m) \cup {k} |-> IF x = k THEN v ELSE m[x]]

RECURSIVE PairsToMap(_, _, _)
PairsToMap(pairs, i, m) ==
    IF i > Len(pairs) THEN m
    ELSE LET keyValue == SplitN2(pairs[i], "=") IN
         PairsToMap(pairs, i + 1,
                    IF Len(keyValue) = 2 THEN MapPut(m, keyValue[1], keyValue[2]) ELSE m)

ConvertToMap(inputString, separator) ==
    IF inputString = <<>> THEN EmptyMap
    ELSE PairsToMap(Split(inputString, separator), 1, EmptyMap)

\* ---- models.BluecatEntity
IsEmpty(er) ==
    er.id = 0 /\ er.name = None /\ er.type = None /\ er.properties = None

\* only called on an entity with a type: *er.Type on a nil Type panics
ToEntity(er) ==
    [id |-> er.id,
     name |-> IF er.name # None THEN er.name[1] ELSE "",
     type |-> er.type[1],
     properties |-> IF er.properties # None
                      THEN ConvertToMap(er.properties[1], "|")
                      ELSE EmptyMap]

\* ---- BaseService
GwResult(k, e) == [kind |-> k, entity |-> e]
GetCall(id) == [method |-> "GET", route |-> "/getEntityById", id |-> id]
DeleteCall(id) == [method |-> "DELETE", route |-> "/delete", id |-> id]

\* GetEntity that converts whatever was decoded
GetEntity_NoEmptyCheck(reply) ==
    IF reply.kind = "err" THEN GwResult("RequestError", None)
    ELSE IF reply.kind = "badjson" THEN GwResult("UnmarshalError", None)
    ELSE IF reply.wire.type = None THEN GwResult("panic", None)
    ELSE GwResult("ok", Some(ToEntity(reply.wire)))

\* GetEntity, given what MakeRequest answered to GET /getEntityById
GetEntity(reply) ==
    IF reply.kind = "err" THEN GwResult("RequestError", None)
    ELSE IF reply.kind = "badjson" THEN GwResult("UnmarshalError", None)
    ELSE IF IsEmpty(reply.wire) THEN GwResult("ErrEntityNotFound", None)
    ELSE IF reply.wire.type = None THEN GwResult("panic", None)
    ELSE GwResult("ok", Some(ToEntity(reply.wire)))

\* an allow-list that also lets zones go
ALLOWDELETE_WithZone ==
    <<HOSTRECORD, EXTERNALHOST, CNAMERECORD, IP4ADDRESS, MACADDRESS, MACPOOL, ZONE>>

ALLOWDELETE == <<HOSTRECORD, EXTERNALHOST, CNAMERECORD, IP4ADDRESS, MACADDRESS, MACPOOL>>

\* common.Contains
Contains(slice, item) == \E i \in 1..Len(slice) : slice[i] = item

\* DeleteEntity with the two guards in the other order
DeleteEntity_PolicyFirst(id, expectedTypes, reply, delErr) ==
    LET got == GetEntity(reply) IN
    IF got.kind # "ok" THEN [calls |-> <<GetCall(id)>>, out |-> got]
    ELSE LET entity == got.entity[1] IN
         IF ~Contains(ALLOWDELETE, entity.type)
           THEN [calls |-> <<GetCall(id)>>, out |-> GwResult("ErrDeleteNotAllowed", None)]
         ELSE IF expectedTypes # {} /\ entity.type \notin expectedTypes
           THEN [calls |-> <<GetCall(id)>>, out |-> GwResult("ErrEntityTypeMismatch", None)]
         ELSE [calls |-> <<GetCall(id), DeleteCall(id)>>,
               out |-> IF delErr THEN GwResult("RequestError", None)
                       ELSE GwResult("deleted", None)]

\* DeleteEntity: the upstream calls it issues and what it returns, given the
\* answers of MakeRequest to the lookup and to the delete
DeleteEntity(id, expectedTypes, reply, delErr) ==
    LET got == GetEntity(reply) IN
    IF got.kind # "ok" THEN [calls |-> <<GetCall(id)>>, out |-> got]
    ELSE LET entity == got.entity[1] IN
         IF expectedTypes # {} /\ entity.type \notin expectedTypes
           THEN [calls |-> <<GetCall(id)>>, out |-> GwResult("ErrEntityTypeMismatch", None)]
         ELSE IF ~Contains(ALLOWDELETE, entity.type)
           THEN [calls |-> <<GetCall(id)>>, out |-> GwResult("ErrDeleteNotAllowed", None)]
         ELSE [calls |-> <<GetCall(id), DeleteCall(id)>>,
               out |-> IF delErr THEN GwResult("RequestError", None)
                       ELSE GwResult("deleted", None)]

GwOp(op, id, expectedTypes, reply, delErr) ==
    [op |-> op, id |-> id, expected |-> expectedTypes, reply |-> reply, delErr |-> delErr]

\* no gateway operation is running
GwIdle == GwOp("none", 0, {}, [kind |-> "err", wire |-> EmptyWire], FALSE)

\* a caller runs BaseService.GetEntity
GetEntityOp ==
    /\ gwOp.op = "none"
    /\ \E id \in RequestIds, reply \in Replies :
        /\ gwOp' = GwOp("GetEntity", id, {}, reply, FALSE)
        /\ gwCalls' = <<GetCall(id)>>
        /\ gwOut' = GetEntity(reply)
        /\ UNCHANGED execVars

\* a caller runs BaseService.DeleteEntity
DeleteEntityOp ==
    /\ gwOp.op = "none"
    /\ \E id \in RequestIds, expectedTypes \in ExpectedSets, reply \in Replies, delErr \in BOOLEAN :
        LET r == DeleteEntity(id, expectedTypes, reply, delErr) IN
        /\ gwOp' = GwOp("DeleteEntity", id, expectedTypes, reply, delErr)
        /\ gwCalls' = r.calls
        /\ gwOut' = r.out
        /\ UNCHANGED execVars

\* the caller has taken the result: nothing of an operation is kept
GwReturn ==
    /\ gwOp.op # "none"
    /\ gwOut.kind # "running"
    /\ gwOp' = GwIdle
    /\ gwCalls' = <<>>
    /\ gwOut' = GwResult("none", None)
    /\ UNCHANGED execVars

\* ---- list operations
\* longest list an upstream answer carries
MaxList == 2

\* wire entities of list answers: the empty one, a configuration, a record
ListWires ==
    { EmptyWire,
      [id |-> 5, name |-> Some("cfg"), type |-> Some(CONFIGURATION), properties |-> None],
      [id |-> 7, name |-> Some("host1"), type |-> Some(HOSTRECORD),
       properties |-> Some(<<"a", "=", "x">>)] }

SeqsUpTo(S, n) == UNION {[1..k -> S] : k \in 0..n}

\* what MakeRequest answers to a list call: an error, a body that does not
\* decode, or a JSON array of wire entities
ListReplies ==
    {[kind |-> "err", list |-> <<>>], [kind |-> "badjson", list |-> <<>>]}
    \cup {[kind |-> "json", list |-> l] : l \in SeqsUpTo(ListWires, MaxList)}

\* counts a caller passes in
Counts == {0, 1, 10, 11, 50}

ListResult(k, es) == [kind |-> k, entities |-> es]

ListCall(start, count, parentId, entityType) ==
    [method |-> "GET", route |-> "/getEntities", start |-> start, count |-> count,
     parentId |-> parentId, type |-> entityType]

\* ConvertToEntities that reports an empty list as a missing entity
ConvertToEntities_EmptyIsNotFound(list) ==
    IF Len(list) = 0 THEN ListResult("ErrEntityNotFound", <<>>)
    ELSE IF \E i \in 1..Len(list) : list[i].type = None
      THEN ListResult("panic", <<>>)
      ELSE ListResult("ok", [i \in 1..Len(list) |-> ToEntity(list[i])])

\* models.ConvertToEntities: ToEntity on every element, no IsEmpty check
ConvertToEntities(list) ==
    IF \E i \in 1..Len(list) : list[i].type = None
      THEN ListResult("panic", <<>>)
      ELSE ListResult("ok", [i \in 1..Len(list) |-> ToEntity(list[i])])

\* GetEntities that clamps the count to the upstream maximum
GetEntities_Clamped(start, count, parentId, entityType, includeHA, reply) ==
    [calls |-> <<ListCall(start, IF count > 10 THEN 10 ELSE count, parentId, entityType)>>,
     out |-> IF reply.kind = "err" THEN ListResult("RequestError", <<>>)
             ELSE IF reply.kind = "badjson" THEN ListResult("UnmarshalError", <<>>)
             ELSE ConvertToEntities(reply.list)]

\* GetEntities: the upstream call it issues and what it returns
GetEntities(start, count, parentId, entityType, includeHA, reply) ==
    [calls |-> <<ListCall(start, count, parentId, entityType)>>,
     out |-> IF reply.kind = "err" THEN ListResult("RequestError", <<>>)
             ELSE IF reply.kind = "badjson" THEN ListResult("UnmarshalError", <<>>)
             ELSE ConvertToEntities(reply.list)]

\* GetConfigID: the first configuration of the upstream
GetConfigID(reply) ==
    LET r == GetEntities(0, 1, 0, CONFIGURATION, FALSE, reply) IN
    IF r.out.kind # "ok" THEN [calls |-> r.calls, kind |-> r.out.kind, id |-> 0]
    ELSE IF Len(r.out.entities) = 0 THEN [calls |-> r.calls, kind |-> "NoContainer", id |-> 0]
    ELSE [calls |-> r.calls, kind |-> "ok", id |-> r.out.entities[1].id]

AssignCall(configId, parentId) ==
    [method |-> "POST", route |-> "/assignNextAvailableIP4Address",
     configurationId |-> configId, parentId |-> parentId]

\* IpAddressService.AssignIpAddress: ToEntity on whatever was decoded
AssignIpAddress(parentId, configReply, reply) ==
    LET cfg == GetConfigID(configReply) IN
    IF cfg.kind # "ok" THEN [calls |-> cfg.calls, out |-> GwResult(cfg.kind, None)]
    ELSE [calls |-> cfg.calls \o <<AssignCall(cfg.id, parentId)>>,
          out |-> IF reply.kind = "err" THEN GwResult("RequestError", None)
                  ELSE IF reply.kind = "badjson" THEN GwResult("UnmarshalError", None)
                  ELSE IF reply.wire.type = None THEN GwResult("panic", None)
                  ELSE GwResult("ok", Some(ToEntity(reply.wire)))]

\* a caller runs BaseService.GetEntities
GetEntitiesOp ==
    /\ gwOp.op = "none"
    /\ \E count \in Counts, reply \in ListReplies :
        LET r == GetEntities(0, count, 0, HOSTRECORD, FALSE, reply) IN
        /\ gwOp' = [op |-> "GetEntities", count |-> count, reply |-> reply]
        /\ gwCalls' = r.calls
        /\ gwOut' = r.out
        /\ UNCHANGED execVars

\* a caller runs IpAddressService.AssignIpAddress
AssignIpAddressOp ==
    /\ gwOp.op = "none"
    /\ \E parentId \in RequestIds, configReply \in ListReplies, reply \in Replies :
        LET r == AssignIpAddress(parentId, configReply, reply) IN
        /\ gwOp' = [op |-> "AssignIpAddress", configReply |-> configReply, reply |-> reply]
        /\ gwCalls' = r.calls
        /\ gwOut' = r.out
        /\ UNCHANGED execVars

\* ---- property maps and their wire form
\* property keys and values, as sequences of characters; some hold the
\* characters the wire form uses as separators
PropKeys == {<<"a">>, <<"b">>, <<"a", "=", "b">>, <<"c", "|", "d">>}
PropValues == {<<>>, <<"x">>, <<"x", "=", "y">>, <<"x", "|", "y">>}

\* maps of at most two properties
PropMaps ==
    UNION {[ks -> PropValues] : ks \in {s \in SUBSET PropKeys : Cardinality(s) <= 2}}

\* the orders in which a range over the map may visit its keys
KeyOrders(m) ==
    {o \in [1..Cardinality(DOMAIN m) -> DOMAIN m] :
        \A i, j \in DOMAIN o : i # j => o[i] # o[j]}

\* strings.Join
RECURSIVE Join(_, _)
Join(elems, sep) ==
    IF Len(elems) = 0 THEN <<>>
    ELSE IF Len(elems) = 1 THEN elems[1]
    ELSE elems[1] \o <<sep>> \o Join(Tail(elems), sep)

\* common.ConvertToSeparatedString; order is the order in which the range
\* over the map visits the keys, which Go leaves open
ConvertToSeparatedString(array, separator, order) ==
    IF DOMAIN array = {} THEN <<>>
    ELSE Join([i \in 1..Len(order) |-> order[i] \o <<"=">> \o array[order[i]]], separator)

\* models.Entity values handed to ToBluecatJSON
Entities ==
    [id : {7}, name : {"", "host1"}, type : {HOSTRECORD}, properties : PropMaps]

\* Entity.ToBluecatJSON: the wire entity that is marshalled
ToBluecatJSON(e, order) ==
    [id |-> e.id, name |-> Some(e.name), type |-> Some(e.type),
     properties |-> Some(ConvertToSeparatedString(e.properties, "|", order))]

\* an entity is written in wire form and the wire form is read back
RoundTripOp ==
    /\ gwOp.op = "none"
    /\ \E e \in Entities :
        \E order \in KeyOrders(e.properties) :
            /\ gwOp' = [op |-> "RoundTrip", entity |-> e, order |-> order]
            /\ gwCalls' = <<>>
            /\ gwOut' = GwResult("ok", Some(ToEntity(ToBluecatJSON(e, order))))
            /\ UNCHANGED execVars

\* ---- listing by hint
DefaultOffset == 0
DefaultLimit == 10

\* a query parameter as the handler reads it: absent or empty, text that is
\* not an integer, or an integer
QueryParam(k, n) == [kind |-> k, n |-> n]
LimitParams ==
    {QueryParam("empty", 0), QueryParam("text", 0)}
    \cup {QueryParam("int", n) : n \in {-1, 0, 5, 25}}
OffsetParams == {QueryParam("empty", 0), QueryParam("int", -1), QueryParam("int", 3)}

\* parseEntitiesByHintParams: defaults, then non-integers and negative
\* numbers are refused; there is no upper limit
parseEntitiesByHintParams(offsetStr, limitStr) ==
    IF offsetStr.kind = "text" \/ (offsetStr.kind = "int" /\ offsetStr.n < 0)
      THEN [kind |-> "BadRequest", offset |-> 0, limit |-> 0]
    ELSE IF limitStr.kind = "text" \/ (limitStr.kind = "int" /\ limitStr.n < 0)
      THEN [kind |-> "BadRequest", offset |-> 0, limit |-> 0]
    ELSE [kind |-> "ok",
          offset |-> IF offsetStr.kind = "int" THEN offsetStr.n ELSE DefaultOffset,
          limit |-> IF limitStr.kind = "int" THEN limitStr.n ELSE DefaultLimit]

HintRoute == "/getHostRecordsByHint"

HintCall(route, containerId, start, count) ==
    [method |-> "GET", route |-> route, containerId |-> containerId,
     start |-> start, count |-> count]

\* the hint helper that queries whatever the container lookup gave
GetEntitiesByHintHelper_IgnoreConfigError(route, start, count, configReply, reply) ==
    LET cfg == GetConfigID(configReply) IN
    [calls |-> cfg.calls \o <<HintCall(route, cfg.id, start, count)>>,
     out |-> IF reply.kind = "err" THEN ListResult("RequestError", <<>>)
             ELSE IF reply.kind = "badjson" THEN ListResult("UnmarshalError", <<>>)
             ELSE ConvertToEntities(reply.list)]

\* GetEntitiesByHintHelper: the container first, then the hint query
GetEntitiesByHintHelper(route, start, count, configReply, reply) ==
    LET cfg == GetConfigID(configReply) IN
    IF cfg.kind # "ok" THEN [calls |-> cfg.calls, out |-> ListResult(cfg.kind, <<>>)]
    ELSE [calls |-> cfg.calls \o <<HintCall(route, cfg.id, start, count)>>,
          out |-> IF reply.kind = "err" THEN ListResult("RequestError", <<>>)
                  ELSE IF reply.kind = "badjson" THEN ListResult("UnmarshalError", <<>>)
                  ELSE ConvertToEntities(reply.list)]

\* HandleGetEntitiesByHintReq: parse the query, then list by hint
GetEntitiesByHintOp ==
    /\ gwOp.op = "none"
    /\ \E offsetStr \in OffsetParams, limitStr \in LimitParams,
       configReply \in ListReplies, reply \in ListReplies :
        LET params == parseEntitiesByHintParams(offsetStr, limitStr)
            r == GetEntitiesByHintHelper(HintRoute, params.offset, params.limit,
                                         configReply, reply)
        IN
        /\ gwOp' = [op |-> "GetEntitiesByHint", offsetStr |-> offsetStr,
                    limitStr |-> limitStr, configReply |-> configReply, reply |-> reply]
        /\ gwCalls' = IF params.kind = "ok" THEN r.calls ELSE <<>>
        /\ gwOut' = IF params.kind = "ok" THEN r.out ELSE ListResult("BadRequest", <<>>)
        /\ UNCHANGED execVars

\* ---- MacAddressService
\* answers to the configuration lookup: an error, no configuration, one
ConfigReplies ==
    { [kind |-> "err", list |-> <<>>],
      [kind |-> "json", list |-> <<>>],
      [kind |-> "json",
       list |-> <<[id |-> 5, name |-> Some("cfg"), type |-> Some(CONFIGURATION),
                   properties |-> None]>>] }

MacKeyA == <<"a">>
MacKeyB == <<"b">>

\* new properties of a request: none, one that overrides, one that adds
MacNewProperties ==
    { EmptyMap, MapPut(EmptyMap, MacKeyA, <<"z">>), MapPut(EmptyMap, MacKeyB, <<"z">>) }

\* models.Mac values of a request
Macs == [address : {"00-11"}, poolId : {0, 3}, properties : MacNewProperties]

\* answers to POST /addMACAddress: an error, a body that is no number, an id
AddReplies ==
    { [kind |-> "err", objectId |-> 0], [kind |-> "badjson", objectId |-> 0],
      [kind |-> "json", objectId |-> 9] }

\* answers to GET /getMACAddress
MacReplies ==
    { [kind |-> "err", wire |-> EmptyWire], [kind |-> "json", wire |-> EmptyWire],
      [kind |-> "json",
       wire |-> [id |-> 9, name |-> None, type |-> Some(MACADDRESS), properties |-> None]],
      [kind |-> "json",
       wire |-> [id |-> 9, name |-> None, type |-> Some(MACADDRESS),
                 properties |-> Some(<<"a", "=", "x">>)]],
      [kind |-> "json",
       wire |-> [id |-> 9, name |-> None, type |-> Some(MACADDRESS),
                 properties |-> Some(<<"b", "=", "y", "|", "a", "=", "x">>)]] }

\* the orders in which a range may visit the two property keys
MacKeyOrders == {<<MacKeyA, MacKeyB>>, <<MacKeyB, MacKeyA>>}

MacResult(k, objectId) == [kind |-> k, objectId |-> objectId]

AddCall(configId, address) ==
    [method |-> "POST", route |-> "/addMACAddress", configurationId |-> configId,
     macAddress |-> address]
AssociateCall(configId, address, poolId) ==
    [method |-> "POST", route |-> "/associateMACAddressWithPool",
     configurationId |-> configId, macAddress |-> address, poolId |-> poolId]
GetMacCall(configId, address) ==
    [method |-> "GET", route |-> "/getMACAddress", configurationId |-> configId,
     macAddress |-> address]
UpdateCall(entity, body) ==
    [method |-> "PUT", route |-> "/update", entity |-> entity, body |-> body]

\* AddMacAddress: the object id of the new address
AddMacAddress(mac, configId, addReply) ==
    [calls |-> <<AddCall(configId, mac.address)>>,
     out |-> IF addReply.kind = "err" THEN MacResult("RequestError", -1)
             ELSE IF addReply.kind = "badjson" THEN MacResult("UnmarshalError", -1)
             ELSE MacResult("ok", addReply.objectId)]

\* AssociateMacAddress that reports success whatever the upstream said
AssociateMacAddress_SwallowError(mac, configId, assocErr) ==
    [calls |-> <<AssociateCall(configId, mac.address, mac.poolId)>>,
     kind |-> "ok"]

\* AssociateMacAddress: fails when the upstream call fails
AssociateMacAddress(mac, configId, assocErr) ==
    [calls |-> <<AssociateCall(configId, mac.address, mac.poolId)>>,
     kind |-> IF assocErr THEN "RequestError" ELSE "ok"]

\* CreateMacAddress that associates whether or not a pool was given
CreateMacAddress_AlwaysAssociate(mac, configReply, addReply, assocErr) ==
    LET cfg == GetConfigID(configReply) IN
    IF cfg.kind # "ok" THEN [calls |-> cfg.calls, out |-> MacResult(cfg.kind, -1)]
    ELSE LET add == AddMacAddress(mac, cfg.id, addReply) IN
         IF add.out.kind # "ok" THEN [calls |-> cfg.calls \o add.calls, out |-> add.out]
         ELSE LET assoc == AssociateMacAddress(mac, cfg.id, assocErr) IN
              [calls |-> cfg.calls \o add.calls \o assoc.calls,
               out |-> IF assoc.kind # "ok" THEN MacResult(assoc.kind, -1) ELSE add.out]

\* CreateMacAddress: configuration, add, then the pool when one was given
CreateMacAddress(mac, configReply, addReply, assocErr) ==
    LET cfg == GetConfigID(configReply) IN
    IF cfg.kind # "ok" THEN [calls |-> cfg.calls, out |-> MacResult(cfg.kind, -1)]
    ELSE LET add == AddMacAddress(mac, cfg.id, addReply) IN
         IF add.out.kind # "ok" THEN [calls |-> cfg.calls \o add.calls, out |-> add.out]
         ELSE IF mac.poolId # 0
           THEN LET assoc == AssociateMacAddress(mac, cfg.id, assocErr) IN
                [calls |-> cfg.calls \o add.calls \o assoc.calls,
                 out |-> IF assoc.kind # "ok" THEN MacResult(assoc.kind, -1) ELSE add.out]
         ELSE [calls |-> cfg.calls \o add.calls, out |-> add.out]

\* a caller runs MacAddressService.CreateMacAddress
CreateMacAddressOp ==
    /\ gwOp.op = "none"
    /\ \E mac \in Macs, configReply \in ConfigReplies, addReply \in AddReplies,
       assocErr \in BOOLEAN :
        LET r == CreateMacAddress(mac, configReply, addReply, assocErr) IN
        /\ gwOp' = [op |-> "CreateMacAddress", mac |-> mac, configReply |-> configReply,
                    addReply |-> addReply, assocErr |-> assocErr]
        /\ gwCalls' = r.calls
        /\ gwOut' = r.out
        /\ UNCHANGED execVars

\* GetMacAddress: configuration, then the address by its text
GetMacAddress(address, configReply, macReply) ==
    LET cfg == GetConfigID(configReply) IN
    IF cfg.kind # "ok" THEN [calls |-> cfg.calls, out |-> GwResult(cfg.kind, None)]
    ELSE [calls |-> cfg.calls \o <<GetMacCall(cfg.id, address)>>,
          out |-> IF macReply.kind = "err" THEN GwResult("RequestError", None)
                  ELSE IF macReply.kind = "badjson" THEN GwResult("UnmarshalError", None)
                  ELSE IF IsEmpty(macReply.wire) THEN GwResult("ErrEntityNotFound", None)
                  ELSE IF macReply.wire.type = None THEN GwResult("panic", None)
                  ELSE GwResult("ok", Some(ToEntity(macReply.wire)))]

\* the keys of a map in the order a range visits them, given the order it
\* would visit all keys in
RangeOrder(m, order) == SelectSeq(order, LAMBDA k : k \in DOMAIN m)

\* UpdateEntity: the entity in wire form as the body of PUT /update
UpdateEntity(entity, order, updErr) ==
    [calls |-> <<UpdateCall(entity, ToBluecatJSON(entity, RangeOrder(entity.properties, order)))>>,
     kind |-> IF updErr THEN "RequestError" ELSE "ok"]

\* entity.Properties[key] = value for every new property
MergeProperties(existing, new) ==
    [k \in (DOMAIN existing) \cup (DOMAIN new) |->
        IF k \in DOMAIN new THEN new[k] ELSE existing[k]]

\* UpdateMacAddress that sends the new properties alone
UpdateMacAddress_ReplaceProperties(newMac, configReply, assocErr, macConfigReply, macReply, order, updErr) ==
    LET cfg == IF newMac.poolId # 0 THEN GetConfigID(configReply)
               ELSE [calls |-> <<>>, kind |-> "ok", id |-> 0]
        assoc == IF newMac.poolId # 0 /\ cfg.kind = "ok"
                   THEN AssociateMacAddress(newMac, cfg.id, assocErr)
                   ELSE [calls |-> <<>>, kind |-> "ok"]
        c1 == cfg.calls \o assoc.calls
    IN
    IF cfg.kind # "ok" THEN [calls |-> c1, out |-> GwResult(cfg.kind, None)]
    ELSE IF assoc.kind # "ok" THEN [calls |-> c1, out |-> GwResult(assoc.kind, None)]
    ELSE IF DOMAIN newMac.properties = {} THEN [calls |-> c1, out |-> GwResult("ok", None)]
    ELSE LET got == GetMacAddress(newMac.address, macConfigReply, macReply) IN
         IF got.out.kind # "ok" THEN [calls |-> c1 \o got.calls, out |-> got.out]
         ELSE LET entity == [got.out.entity[1] EXCEPT !.properties = newMac.properties]
                  upd == UpdateEntity(entity, order, updErr)
              IN [calls |-> c1 \o got.calls \o upd.calls, out |-> GwResult(upd.kind, None)]

\* UpdateMacAddress: the pool when one was given, then the properties
UpdateMacAddress(newMac, configReply, assocErr, macConfigReply, macReply, order, updErr) ==
    LET cfg == IF newMac.poolId # 0 THEN GetConfigID(configReply)
               ELSE [calls |-> <<>>, kind |-> "ok", id |-> 0]
        assoc == IF newMac.poolId # 0 /\ cfg.kind = "ok"
                   THEN AssociateMacAddress(newMac, cfg.id, assocErr)
                   ELSE [calls |-> <<>>, kind |-> "ok"]
        c1 == cfg.calls \o assoc.calls
    IN
    IF cfg.kind # "ok" THEN [calls |-> c1, out |-> GwResult(cfg.kind, None)]
    ELSE IF assoc.kind # "ok" THEN [calls |-> c1, out |-> GwResult(assoc.kind, None)]
    ELSE IF DOMAIN newMac.properties = {} THEN [calls |-> c1, out |-> GwResult("ok", None)]
    ELSE LET got == GetMacAddress(newMac.address, macConfigReply, macReply) IN
         IF got.out.kind # "ok" THEN [calls |-> c1 \o got.calls, out |-> got.out]
         ELSE LET entity == [got.out.entity[1] EXCEPT
                               !.properties = MergeProperties(@, newMac.properties)]
                  upd == UpdateEntity(entity, order, updErr)
              IN [calls |-> c1 \o got.calls \o upd.calls, out |-> GwResult(upd.kind, None)]

\* a caller runs MacAddressService.UpdateMacAddress
UpdateMacAddressOp ==
    /\ gwOp.op = "none"
    /\ \E newMac \in Macs, configReply \in ConfigReplies, assocErr \in BOOLEAN,
       macConfigReply \in ConfigReplies, macReply \in MacReplies,
       order \in MacKeyOrders, updErr \in BOOLEAN :
        LET r == UpdateMacAddress(newMac, configReply, assocErr, macConfigReply,
                                  macReply, order, updErr)
        IN
        /\ gwOp' = [op |-> "UpdateMacAddress", mac |-> newMac, configReply |-> configReply,
                    assocErr |-> assocErr, macConfigReply |-> macConfigReply,
                    macReply |-> macReply, order |-> order, updErr |-> updErr]
        /\ gwCalls' = r.calls
        /\ gwOut' = r.out
        /\ UNCHANGED execVars

\* ---- typed facades
NetworkTypes == {IP4NETWORK}
RecordTypes == {CNAMERECORD, HOSTRECORD, EXTERNALHOST}
IpAddressTypes == {IP4ADDRESS}

\* GetEntityByID that returns whatever type it fetched
GetEntityByID_NoTypeCheck(id, expectedTypes, reply) ==
    IF reply.kind = "err" THEN GwResult("RequestError", None)
    ELSE IF reply.kind = "badjson" THEN GwResult("UnmarshalError", None)
    ELSE IF IsEmpty(reply.wire) THEN GwResult("ErrEntityNotFound", None)
    ELSE IF reply.wire.type = None THEN GwResult("panic", None)
    ELSE GwResult("ok", Some(ToEntity(reply.wire)))

\* GetEntityByID: the lookup, then the type expectation
GetEntityByID(id, expectedTypes, reply) ==
    IF reply.kind = "err" THEN GwResult("RequestError", None)
    ELSE IF reply.kind = "badjson" THEN GwResult("UnmarshalError", None)
    ELSE IF IsEmpty(reply.wire) THEN GwResult("ErrEntityNotFound", None)
    ELSE IF reply.wire.type = None THEN GwResult("panic", None)
    ELSE IF expectedTypes # {} /\ ToEntity(reply.wire).type \notin expectedTypes
      THEN GwResult("ErrEntityTypeMismatch", None)
    ELSE GwResult("ok", Some(ToEntity(reply.wire)))

\* DeleteEntityByID: typed lookup, deletion policy, delete
DeleteEntityByID(id, expectedTypes, reply, delErr) ==
    LET got == GetEntityByID(id, expectedTypes, reply) IN
    IF got.kind # "ok" THEN [calls |-> <<GetCall(id)>>, out |-> got]
    ELSE IF ~Contains(ALLOWDELETE, got.entity[1].type)
      THEN [calls |-> <<GetCall(id)>>, out |-> GwResult("ErrDeleteNotAllowed", None)]
    ELSE [calls |-> <<GetCall(id), DeleteCall(id)>>,
          out |-> IF delErr THEN GwResult("RequestError", None)
                  ELSE GwResult("deleted", None)]

\* answers to GET /getIP4Address
IpReplies ==
    { [kind |-> "err", wire |-> EmptyWire], [kind |-> "json", wire |-> EmptyWire],
      [kind |-> "json",
       wire |-> [id |-> 1, name |-> None, type |-> Some(IP4ADDRESS), properties |-> None]],
      [kind |-> "json",
       wire |-> [id |-> 2, name |-> None, type |-> Some(HOSTRECORD), properties |-> None]] }

GetIpCall(configId, address) ==
    [method |-> "GET", route |-> "/getIP4Address", containerId |-> configId,
     address |-> address]

\* GetIpAddress: configuration, then the address by its text
GetIpAddress(address, configReply, ipReply) ==
    LET cfg == GetConfigID(configReply) IN
    IF cfg.kind # "ok" THEN [calls |-> cfg.calls, out |-> GwResult(cfg.kind, None)]
    ELSE [calls |-> cfg.calls \o <<GetIpCall(cfg.id, address)>>,
          out |-> IF ipReply.kind = "err" THEN GwResult("RequestError", None)
                  ELSE IF ipReply.kind = "badjson" THEN GwResult("UnmarshalError", None)
                  ELSE IF IsEmpty(ipReply.wire) THEN GwResult("ErrEntityNotFound", None)
                  ELSE IF ipReply.wire.type = None THEN GwResult("panic", None)
                  ELSE GwResult("ok", Some(ToEntity(ipReply.wire)))]

\* DeleteIpAddress: the address by its text, then DeleteEntity on its id
DeleteIpAddress(address, configReply, ipReply, reply, delErr) ==
    LET got == GetIpAddress(address, configReply, ipReply) IN
    IF got.out.kind # "ok" THEN got
    ELSE LET del == DeleteEntity(got.out.entity[1].id, IpAddressTypes, reply, delErr) IN
         [calls |-> got.calls \o del.calls, out |-> del.out]

FacadeOp(op, id, expectedTypes, reply, delErr) ==
    [op |-> op, id |-> id, expected |-> expectedTypes, reply |-> reply, delErr |-> delErr]

\* a caller runs NetworkService.GetEntity
NetworkGetEntityOp ==
    /\ gwOp.op = "none"
    /\ \E networkId \in RequestIds, reply \in Replies :
        /\ gwOp' = FacadeOp("NetworkService.GetEntity", networkId, NetworkTypes, reply, FALSE)
        /\ gwCalls' = <<GetCall(networkId)>>
        /\ gwOut' = GetEntityByID(networkId, NetworkTypes, reply)
        /\ UNCHANGED execVars

\* a caller runs RecordService.GetEntity
RecordGetEntityOp ==
    /\ gwOp.op = "none"
    /\ \E recordId \in RequestIds, reply \in Replies :
        /\ gwOp' = FacadeOp("RecordService.GetEntity", recordId, RecordTypes, reply, FALSE)
        /\ gwCalls' = <<GetCall(recordId)>>
        /\ gwOut' = GetEntityByID(recordId, RecordTypes, reply)
        /\ UNCHANGED execVars

\* a caller runs RecordService.DeleteEntity
RecordDeleteEntityOp ==
    /\ gwOp.op = "none"
    /\ \E recordId \in RequestIds, reply \in Replies, delErr \in BOOLEAN :
        LET r == DeleteEntityByID(recordId, RecordTypes, reply, delErr) IN
        /\ gwOp' = FacadeOp("RecordService.DeleteEntity", recordId, RecordTypes, reply, delErr)
        /\ gwCalls' = r.calls
        /\ gwOut' = r.out
        /\ UNCHANGED execVars

\* a caller runs IpAddressService.DeleteIpAddress
DeleteIpAddressOp ==
    /\ gwOp.op = "none"
    /\ \E configReply \in ConfigReplies, ipReply \in IpReplies, reply \in Replies,
       delErr \in BOOLEAN :
        LET r == DeleteIpAddress("10.0.0.1", configReply, ipReply, reply, delErr) IN
        /\ gwOp' = [op |-> "IpAddressService.DeleteIpAddress", configReply |-> configReply,
                    ipReply |-> ipReply, expected |-> IpAddressTypes, reply |-> reply,
                    delErr |-> delErr]
        /\ gwCalls' = r.calls
        /\ gwOut' = r.out
        /\ UNCHANGED execVars

NextGateway ==
    \/ GetEntityOp
    \/ DeleteEntityOp
    \/ GetEntitiesOp
    \/ AssignIpAddressOp
    \/ RoundTripOp
    \/ GetEntitiesByHintOp
    \/ CreateMacAddressOp
    \/ UpdateMacAddressOp
    \/ NetworkGetEntityOp
    \/ RecordGetEntityOp
    \/ RecordDeleteEntityOp
    \/ DeleteIpAddressOp
    \/ GwReturn

SpecGateway == Init /\ [][NextGateway]_vars

\* ---- parentIdFromCidr
\* most candidates one call tries
MaxProbes == 10

\* the cidr parameter of a request: empty, text net.ParseCIDR refuses, or an
\* IPv4 address with a prefix length
Cidr(k, ip, bits) == [kind |-> k, ip |-> ip, bits |-> bits]
Cidrs ==
    { Cidr("empty", <<0, 0, 0, 0>>, 0),
      Cidr("bad", <<0, 0, 0, 0>>, 0),
      Cidr("ok", <<10, 0, 0, 5>>, 24),
      Cidr("ok", <<10, 0, 0, 0>>, 29),
      Cidr("ok", <<10, 0, 255, 250>>, 29),
      Cidr("ok", <<10, 0, 0, 255>>, 32),
      Cidr("ok", <<255, 255, 255, 255>>, 32),
      Cidr("ok", <<0, 0, 0, 0>>, 0) }

\* how many of the prefix bits fall into byte i
BitsIn(bits, i) ==
    IF bits >= 8 * i THEN 8
    ELSE IF bits <= 8 * (i - 1) THEN 0
    ELSE bits - 8 * (i - 1)

\* net.IP.Mask
MaskIP(ip, bits) ==
    [i \in 1..Len(ip) |->
        (ip[i] \div 2^(8 - BitsIn(bits, i))) * 2^(8 - BitsIn(bits, i))]

\* Contains that takes every address to be in the network
NetContains_Always(ipNet, ip) == TRUE

\* net.IPNet.Contains
NetContains(ipNet, ip) == MaskIP(ip, ipNet.bits) = ipNet.ip

\* incrementIP: add one to the last byte, carry while a byte wraps to 0
RECURSIVE IncrementFrom(_, _)
IncrementFrom(ip, j) ==
    IF j = 0 THEN ip
    ELSE LET b == (ip[j] + 1) % 256 IN
         IF b > 0 THEN [ip EXCEPT ![j] = b]
         ELSE IncrementFrom([ip EXCEPT ![j] = b], j - 1)

\* incrementIP that adds one to the last byte and drops the carry
incrementIP_NoCarry(ip) == [ip EXCEPT ![Len(ip)] = (@ + 1) % 256]

incrementIP(ip) == IncrementFrom(ip, Len(ip))

\* answers to GET /getParent
ParentReplies ==
    { [kind |-> "err", wire |-> EmptyWire], [kind |-> "json", wire |-> EmptyWire],
      [kind |-> "json",
       wire |-> [id |-> 4, name |-> None, type |-> Some(IP4NETWORK), properties |-> None]] }

\* GetParentID: the id of the parent of an entity
GetParentID(entityId, reply) ==
    IF reply.kind = "err" THEN [kind |-> "RequestError", id |-> -1]
    ELSE IF reply.kind = "badjson" THEN [kind |-> "UnmarshalError", id |-> -1]
    ELSE IF IsEmpty(reply.wire) THEN [kind |-> "ErrEntityNotFound", id |-> -1]
    ELSE IF reply.wire.type = None THEN [kind |-> "panic", id |-> -1]
    ELSE [kind |-> "ok", id |-> ToEntity(reply.wire).id]

ResolveResult(k, parentId) == [kind |-> k, parentId |-> parentId]

\* a candidate handed to GetIpAddress
ProbeCall(ip) == [method |-> "GetIpAddress", route |-> "IpAddressService", address |-> ip]

ResolveOp(cidr, ipNet, ip, counter, ipFailures, parentFailures) ==
    [op |-> "parentIdFromCidr", cidr |-> cidr, ipNet |-> ipNet, ip |-> ip,
     counter |-> counter, ipFailures |-> ipFailures, parentFailures |-> parentFailures]

\* parentIdFromCidr up to the loop: the cidr is checked and parsed
ParentIdFromCidrStart ==
    /\ gwOp.op = "none"
    /\ \E cidr \in Cidrs :
        LET ipNet == [ip |-> MaskIP(cidr.ip, cidr.bits), bits |-> cidr.bits] IN
        /\ gwOp' = ResolveOp(cidr, ipNet, MaskIP(ipNet.ip, ipNet.bits), 0, 0, 0)
        /\ gwCalls' = <<>>
        /\ gwOut' = IF cidr.kind = "empty" THEN ResolveResult("EmptyCIDR", -1)
                    ELSE IF cidr.kind = "bad" THEN ResolveResult("InvalidCIDR", -1)
                    ELSE ResolveResult("running", 0)
        /\ UNCHANGED execVars

\* the loop counting only the candidates whose IP lookup failed
ParentIdFromCidrLoop_CountIpFailuresOnly ==
    /\ gwOp.op = "parentIdFromCidr"
    /\ gwOut.kind = "running"
    /\ IF ~NetContains(gwOp.ipNet, gwOp.ip) \/ gwOp.counter >= MaxProbes
         THEN /\ gwOut' = ResolveResult("NoParentFound", 0)
              /\ UNCHANGED <<gwOp, gwCalls>>
         ELSE \E configReply \in ConfigReplies, ipReply \in IpReplies,
                 parentReply \in ParentReplies :
                LET got == GetIpAddress(gwOp.ip, configReply, ipReply).out
                    parent == GetParentID(got.entity[1].id, parentReply)
                IN
                /\ gwCalls' = Append(gwCalls, ProbeCall(gwOp.ip))
                /\ IF got.kind # "ok"
                     THEN /\ gwOp' = [gwOp EXCEPT !.counter = @ + 1, !.ipFailures = @ + 1,
                                                  !.ip = incrementIP(@)]
                          /\ UNCHANGED gwOut
                     ELSE IF parent.kind = "ok"
                       THEN /\ gwOut' = ResolveResult("ok", parent.id)
                            /\ UNCHANGED gwOp
                       ELSE /\ gwOp' = [gwOp EXCEPT !.parentFailures = @ + 1,
                                                    !.ip = incrementIP(@)]
                            /\ UNCHANGED gwOut
    /\ UNCHANGED execVars

\* the loop that tries one more candidate after the one that succeeded
ParentIdFromCidrLoop_ProbeAfterSuccess ==
    /\ gwOp.op = "parentIdFromCidr"
    /\ gwOut.kind = "running"
    /\ IF ~NetContains(gwOp.ipNet, gwOp.ip) \/ gwOp.counter >= MaxProbes
         THEN /\ gwOut' = ResolveResult("NoParentFound", 0)
              /\ UNCHANGED <<gwOp, gwCalls>>
         ELSE \E configReply \in ConfigReplies, ipReply \in IpReplies,
                 parentReply \in ParentReplies :
                LET got == GetIpAddress(gwOp.ip, configReply, ipReply).out
                    parent == GetParentID(got.entity[1].id, parentReply)
                IN
                IF got.kind # "ok"
                  THEN /\ gwCalls' = Append(gwCalls, ProbeCall(gwOp.ip))
                       /\ gwOp' = [gwOp EXCEPT !.counter = @ + 1, !.ipFailures = @ + 1,
                                               !.ip = incrementIP(@)]
                       /\ UNCHANGED gwOut
                  ELSE IF parent.kind = "ok"
                    THEN /\ gwCalls' = gwCalls \o <<ProbeCall(gwOp.ip),
                                                    ProbeCall(incrementIP(gwOp.ip))>>
                         /\ gwOut' = ResolveResult("ok", parent.id)
                         /\ gwOp' = [gwOp EXCEPT !.ip = incrementIP(@)]
                    ELSE /\ gwCalls' = Append(gwCalls, ProbeCall(gwOp.ip))
                         /\ gwOp' = [gwOp EXCEPT !.counter = @ + 1,
                                                 !.parentFailures = @ + 1,
                                                 !.ip = incrementIP(@)]
                         /\ UNCHANGED gwOut
    /\ UNCHANGED execVars

\* one pass of the loop of parentIdFromCidr: the loop condition and the bound,
\* then the two lookups for the candidate
ParentIdFromCidrLoop ==
    /\ gwOp.op = "parentIdFromCidr"
    /\ gwOut.kind = "running"
    /\ IF ~NetContains(gwOp.ipNet, gwOp.ip) \/ gwOp.counter >= MaxProbes
         THEN /\ gwOut' = ResolveResult("NoParentFound", 0)
              /\ UNCHANGED <<gwOp, gwCalls>>
         ELSE \E configReply \in ConfigReplies, ipReply \in IpReplies,
                 parentReply \in ParentReplies :
                LET got == GetIpAddress(gwOp.ip, configReply, ipReply).out
                    parent == GetParentID(got.entity[1].id, parentReply)
                IN
                /\ gwCalls' = Append(gwCalls, ProbeCall(gwOp.ip))
                /\ IF got.kind # "ok"
                     THEN /\ gwOp' = [gwOp EXCEPT !.counter = @ + 1, !.ipFailures = @ + 1,
                                                  !.ip = incrementIP(@)]
                          /\ UNCHANGED gwOut
                     ELSE IF parent.kind = "ok"
                       THEN /\ gwOut' = ResolveResult("ok", parent.id)
                            /\ UNCHANGED gwOp
                       ELSE /\ gwOp' = [gwOp EXCEPT !.counter = @ + 1,
                                                    !.parentFailures = @ + 1,
                                                    !.ip = incrementIP(@)]
                            /\ UNCHANGED gwOut
    /\ UNCHANGED execVars

NextResolver == ParentIdFromCidrStart \/ ParentIdFromCidrLoop \/ GwReturn

SpecResolver == Init /\ [][NextResolver]_vars

\* ---- handlers: the outward status of a service error
StatusBadRequest == 400
StatusForbidden == 403
StatusNotFound == 404
StatusConflict == 409
StatusInternalServerError == 500
StatusNoContent == 204

\* what a handler leaves on the ResponseWriter: the status written and the
\* error of the service it answers for ("none" after a success, "parse" after
\* a request that did not parse); a panic of the service writes nothing
Responded(status, err) == [kind |-> "responded", status |-> status, err |-> err]
HandlerPanic == [kind |-> "panic", status |-> 0, err |-> "panic"]

\* DeleteIpAddressHandler, given whether the parameters parsed and what
\* IpAddressService.DeleteIpAddress did
DeleteIpAddressHandler(parseErr, r) ==
    IF parseErr THEN [calls |-> <<>>, out |-> Responded(StatusBadRequest, "parse")]
    ELSE IF r.out.kind = "panic" THEN [calls |-> r.calls, out |-> HandlerPanic]
    ELSE IF r.out.kind = "deleted"
      THEN [calls |-> r.calls, out |-> Responded(StatusNoContent, "none")]
    ELSE IF r.out.kind = "ErrEntityNotFound"
      THEN [calls |-> r.calls, out |-> Responded(StatusNotFound, r.out.kind)]
    ELSE IF r.out.kind = "ErrDeleteNotAllowed"
      THEN [calls |-> r.calls, out |-> Responded(StatusForbidden, r.out.kind)]
    ELSE IF r.out.kind = "ErrEntityTypeMismatch"
      THEN [calls |-> r.calls, out |-> Responded(StatusConflict, r.out.kind)]
    ELSE [calls |-> r.calls, out |-> Responded(StatusInternalServerError, r.out.kind)]

\* DeleteEntityHandler, given whether the parameters parsed and what
\* BaseService.DeleteEntity(params.ID, []string{}) did: the switch has one
\* case, ErrDeleteNotAllowed, answered with StatusNotFound
DeleteEntityHandler(parseErr, r) ==
    IF parseErr THEN [calls |-> <<>>, out |-> Responded(StatusBadRequest, "parse")]
    ELSE IF r.out.kind = "panic" THEN [calls |-> r.calls, out |-> HandlerPanic]
    ELSE IF r.out.kind = "deleted"
      THEN [calls |-> r.calls, out |-> Responded(StatusNoContent, "none")]
    ELSE IF r.out.kind = "ErrDeleteNotAllowed"
      THEN [calls |-> r.calls, out |-> Responded(StatusNotFound, r.out.kind)]
    ELSE [calls |-> r.calls, out |-> Responded(StatusInternalServerError, r.out.kind)]

\* HandleGetEntityReq, given whether the parameters parsed and what the
\* service's GetEntity returned: the switch has one case, ErrEntityNotFound
HandleGetEntityReq(parseErr, id, got) ==
    IF parseErr THEN [calls |-> <<>>, out |-> Responded(StatusBadRequest, "parse")]
    ELSE IF got.kind = "panic" THEN [calls |-> <<GetCall(id)>>, out |-> HandlerPanic]
    ELSE IF got.kind = "ok"
      THEN [calls |-> <<GetCall(id)>>, out |-> Responded(StatusOK, "none")]
    ELSE IF got.kind = "ErrEntityNotFound"
      THEN [calls |-> <<GetCall(id)>>, out |-> Responded(StatusNotFound, got.kind)]
    ELSE [calls |-> <<GetCall(id)>>, out |-> Responded(StatusInternalServerError, got.kind)]

\* the services HandleGetEntityReq is built over, by the types each expects:
\* GetEntityHandler (BaseService), GetNetworkHandler, GetRecordHandler
GetterServices == {{}, NetworkTypes, RecordTypes}

\* DELETE /{account}/ips/{ip}
DeleteIpAddressHandlerOp ==
    /\ gwOp.op = "none"
    /\ \E parseErr \in BOOLEAN, configReply \in ConfigReplies, ipReply \in IpReplies,
          reply \in Replies, delErr \in BOOLEAN :
        LET r == DeleteIpAddressHandler(parseErr,
                     DeleteIpAddress("10.0.0.1", configReply, ipReply, reply, delErr)) IN
        /\ gwOp' = [op |-> "DeleteIpAddressHandler", parseErr |-> parseErr,
                    configReply |-> configReply, ipReply |-> ipReply,
                    expected |-> IpAddressTypes, reply |-> reply, delErr |-> delErr]
        /\ gwCalls' = r.calls
        /\ gwOut' = r.out
        /\ UNCHANGED execVars

\* DELETE of an entity by id
DeleteEntityHandlerOp ==
    /\ gwOp.op = "none"
    /\ \E parseErr \in BOOLEAN, id \in RequestIds, reply \in Replies, delErr \in BOOLEAN :
        LET r == DeleteEntityHandler(parseErr, DeleteEntity(id, {}, reply, delErr)) IN
        /\ gwOp' = [op |-> "DeleteEntityHandler", parseErr |-> parseErr, id |-> id,
                    expected |-> {}, reply |-> reply, delErr |-> delErr]
        /\ gwCalls' = r.calls
        /\ gwOut' = r.out
        /\ UNCHANGED execVars

\* GET of an entity, a network or a record by id
HandleGetEntityReqOp ==
    /\ gwOp.op = "none"
    /\ \E parseErr \in BOOLEAN, id \in RequestIds, service \in GetterServices,
          reply \in Replies :
        LET r == HandleGetEntityReq(parseErr, id, GetEntityByID(id, service, reply)) IN
        /\ gwOp' = [op |-> "HandleGetEntityReq", parseErr |-> parseErr, id |-> id,
                    expected |-> service, reply |-> reply, delErr |-> FALSE]
        /\ gwCalls' = r.calls
        /\ gwOut' = r.out
        /\ UNCHANGED execVars

NextHandlers ==
    \/ DeleteIpAddressHandlerOp
    \/ DeleteEntityHandlerOp
    \/ HandleGetEntityReqOp
    \/ GwReturn

SpecHandlers == Init /\ [][NextHandlers]_vars

\* ---- TokenMiddleware
Methods == {"GET", "POST", "DELETE", "OPTIONS"}

\* r.RequestURI as the characters received on the request line
RequestURIs ==
    { <<>>, <<"x">>, <<"/", "f">>, <<"/", "f", "?", "q">>, <<"/", "f", "/">>,
      <<"/", "p">>, <<"/", "p", "?", "q">> }

\* the public map the middleware is built with
PublicURLs == { <<"/", "f">> }

\* url.ParseRequestURI: a request URI is a path that starts with "/" (or the
\* single "*"), optionally followed by "?" and a query; anything else is an error
ParseRequestURI(rawURL) ==
    IF rawURL = <<>> THEN [err |-> TRUE, Path |-> <<>>]
    ELSE IF rawURL[1] # "/"
      THEN IF rawURL = <<"*">> THEN [err |-> FALSE, Path |-> rawURL]
           ELSE [err |-> TRUE, Path |-> <<>>]
    ELSE LET i == IndexFrom(rawURL, "?", 1) IN
         [err |-> FALSE, Path |-> IF i = 0 THEN rawURL ELSE SubSeq(rawURL, 1, i - 1)]

\* pre-shared keys and bcrypt salts
Keys == {"k1", "k2"}
Salts == {1, 2}

\* bcrypt.GenerateFromPassword: the salt in clear and a digest that only the
\* same password under the same salt produces
GenerateFromPassword(password, salt) ==
    [kind |-> "bcrypt", salt |-> salt, digest |-> <<salt, password>>]

\* what a client may put in X-Auth-Token: nothing, a key in clear, or a
\* bcrypt hash of a key
PlainToken(text) == [kind |-> "plain", salt |-> 0, digest |-> <<0, text>>]
NoHeader == PlainToken("")
HeaderTokens ==
    {NoHeader} \cup {PlainToken(k) : k \in Keys}
       \cup {GenerateFromPassword(k, s) : k \in Keys, s \in Salts}

\* a comparison that takes the key in clear for a hash of itself
CompareHashAndPassword_PlainEquality(hashedPassword, password) ==
    hashedPassword.digest[2] = password

\* bcrypt.CompareHashAndPassword: TRUE when it returns nil, that is, when
\* hashedPassword has the form of a hash and hashing password under the salt
\* it carries gives the same digest
CompareHashAndPassword(hashedPassword, password) ==
    /\ hashedPassword.kind = "bcrypt"
    /\ GenerateFromPassword(password, hashedPassword.salt).digest = hashedPassword.digest

CorsHeaders ==
    { <<"Access-Control-Allow-Origin", "*">>,
      <<"Access-Control-Allow-Headers", "X-Auth-Token">> }

HandlerCall(method, requestURI) ==
    [method |-> method, route |-> requestURI, id |-> 0]

MiddlewareResponse(status, headers) ==
    [kind |-> "responded", status |-> status, headers |-> headers]

\* TokenMiddleware: the calls of the wrapped handler and the response, given
\* the request and the status the wrapped handler writes when it is called
TokenMiddleware(psk, public, method, requestURI, htoken, handlerStatus) ==
    LET uri == ParseRequestURI(requestURI) IN
    IF method = "OPTIONS"
      THEN [calls |-> <<>>, out |-> MiddlewareResponse(StatusOK, CorsHeaders)]
    ELSE IF uri.err
      THEN [calls |-> <<>>, out |-> MiddlewareResponse(StatusForbidden, {})]
    ELSE IF uri.Path \notin public /\ ~CompareHashAndPassword(htoken, psk)
      THEN [calls |-> <<>>, out |-> MiddlewareResponse(StatusForbidden, {})]
    ELSE [calls |-> <<HandlerCall(method, requestURI)>>,
          out |-> MiddlewareResponse(handlerStatus, {})]

\* a request arrives at the middleware of a server configured with psk
TokenMiddlewareOp ==
    /\ gwOp.op = "none"
    /\ \E psk \in Keys, method \in Methods, requestURI \in RequestURIs,
          htoken \in HeaderTokens, handlerStatus \in {StatusOK, StatusNotFound} :
        LET r == TokenMiddleware(psk, PublicURLs, method, requestURI, htoken, handlerStatus) IN
        /\ gwOp' = [op |-> "TokenMiddleware", psk |-> psk, method |-> method,
                    requestURI |-> requestURI, htoken |-> htoken,
                    handlerStatus |-> handlerStatus]
        /\ gwCalls' = r.calls
        /\ gwOut' = r.out
        /\ UNCHANGED execVars

NextMiddleware == TokenMiddlewareOp \/ GwReturn

SpecMiddleware == Init /\ [][NextMiddleware]_vars

\* ============================================================ properties
Last(q) == q[Len(q)]

\* the first attempt and the retry of t's current call were both answered 401
TwoRejections(t) ==
    /\ Len(resps[t]) >= 2
    /\ resps[t][1] = StatusUnauthorized
    /\ resps[t][2] = StatusUnauthorized

\* C1: while the cached token is empty, concurrent callers of getToken are
\* serialized by the lock held across the check and the fill: at most one
\* thread is in the login exchange, at most one login succeeds per clearing
\* of the token, and a caller that returns a token without having logged in
\* returns the token the first one stored.
C1_OneLoginPerInvalidation ==
    /\ Cardinality({t \in Threads : pc[t] = "gt_login"}) <= 1
    /\ okSinceInval <= 1
    /\ \A t \in Threads :
         (pc[t] = "gt_unlock" /\ ~gtErr[t]) =>
            (okSinceInval = 1 /\ tok[t] = token /\ token # NoToken)

\* two callers met on the empty token: one logged in and is on its way to the
\* upstream, the other is returning the same token without a login
C1_Witness ==
    \E t, u \in Threads :
        /\ t # u
        /\ pc[u] = "send" /\ gtLogin[u] /\ ~gtErr[u] /\ attempts[u] = 0
        /\ pc[t] = "gt_unlock" /\ ~gtLogin[t] /\ ~gtErr[t] /\ attempts[t] = 0
        /\ tok[t] = tok[u]
        /\ nLogin = 1

\* C2 (as claimed): after a 401 on the first attempt and a 401 on the retry the
\* call has issued exactly two upstream attempts, and when it has returned it
\* returned an authentication-rejected error.
C2_NoThirdAttempt ==
    \A t \in Threads :
        TwoRejections(t) =>
            /\ attempts[t] = 2
            /\ (pc[t] = "done" => result[t].kind = "UpstreamAuthRejected")

\* C3: in a sequential run, a call answered 401 then 200 returns the body of
\* the retry response, and has cleared the token exactly once and then issued
\* exactly one login exchange.
C3_SingleRetryCycle ==
    \A t \in Threads :
        (pc[t] = "done" /\ resps[t] = <<StatusUnauthorized, StatusOK>>) =>
            /\ result[t] = OkResult(Body(2))
            /\ invals[t] = 1
            /\ loginsAfter[t] = 1

C3_Witness ==
    \E t \in Threads :
        /\ pc[t] = "done"
        /\ resps[t] = <<StatusUnauthorized, StatusOK>>
        /\ result[t].kind = "ok"
        /\ nLogin = 2

\* C4: every read and every write of bluecat.token is done by a thread that
\* holds tokenLock.
C4_TokenOnlyUnderLock == unguarded = {}

\* a thread has read the token, cleared it after a 401 and stored a new one
C4_Witness ==
    \E t \in Threads :
        /\ invals[t] >= 1
        /\ pc[t] = "gt_unlock"
        /\ gtLogin[t] /\ ~gtErr[t]
        /\ token = tok[t]

\* C5: a failed login exchange makes getToken return an error and no token and
\* leaves the cached token empty, and a getToken that finds the cache empty
\* goes to a login exchange.
C5_FailedLoginNotCached ==
    [][\A t \in Threads :
         /\ (pc[t] = "gt_login" /\ pc'[t] = "gt_unlock" /\ gtErr'[t])
               => (token' = NoToken /\ tok'[t] = NoToken /\ nLogin' = nLogin + 1)
         /\ (pc[t] = "gt_check" /\ pc'[t] # "gt_check" /\ token = NoToken)
               => pc'[t] = "gt_login"]_vars

\* after a failed login a later getToken is again in a login exchange
C5_Witness ==
    \E t \in Threads :
        /\ pc[t] = "gt_login"
        /\ anyLoginFail
        /\ token = NoToken
        /\ nLogin >= 1

\* C6: as long as no login failed and no response was a 401, one login
\* exchange serves every call: never more than one is issued, and every call
\* that got its token got it with exactly one issued in total.
C6_OneLoginWithoutRejection ==
    (~any401 /\ ~anyLoginFail) =>
        /\ nLogin <= 1
        /\ \A t \in Threads : pc[t] \in {"send", "done"} => nLogin = 1

\* two calls have returned and the second reused the token of the first
C6_Witness ==
    /\ calls = 2
    /\ ~any401 /\ ~anyLoginFail
    /\ nLogin = 1
    /\ \A t \in Threads : pc[t] \in {"idle", "done"}
    /\ \E t \in Threads : result[t].kind = "ok"

\* C7: a response with a non-success status other than 401 ends the call with
\* an error carrying that status and that response's body, without touching
\* the cached token and without another attempt.
C7_OtherStatusIsTerminal ==
    [][\A t \in Threads :
         (/\ pc[t] = "send" /\ pc'[t] # "send"
          /\ Last(resps'[t]) \notin {StatusOK, StatusUnauthorized, NetErr})
            => /\ pc'[t] = "done"
               /\ result'[t] = UpstreamError(Last(resps'[t]), Body(Len(resps'[t])))
               /\ attempts'[t] = attempts[t] + 1
               /\ token' = token
               /\ tokenLock' = tokenLock]_vars

C7_Witness ==
    \E t \in Threads :
        /\ pc[t] = "done"
        /\ result[t] = UpstreamError(StatusServerError, Body(1))
        /\ token # NoToken

\* ---- entity gateway
DeletableTypes ==
    {"HostRecord", "ExternalHostRecord", "AliasRecord", "IP4Address", "MACAddress", "MACPool"}

DeleteIssued == \E i \in 1..Len(gwCalls) : gwCalls[i].method = "DELETE"

\* the lookup of the last gateway operation decoded to an entity with a type
FetchedTyped ==
    /\ gwOp.reply.kind = "json"
    /\ gwOp.reply.wire.type # None

FetchedType == gwOp.reply.wire.type[1]

\* C8: DeleteEntity issues the upstream delete call only if the lookup returned
\* an entity that exists, whose type is in expectedTypes when expectedTypes is
\* not empty, and whose type is one of the six deletable types.
C8_DeleteOnlyAfterBothGuards ==
    (gwOp.op = "DeleteEntity" /\ DeleteIssued) =>
        /\ gwOp.reply.kind = "json"
        /\ gwOp.reply.wire # EmptyWire
        /\ gwOp.reply.wire.type # None
        /\ (gwOp.expected # {} => FetchedType \in gwOp.expected)
        /\ FetchedType \in DeletableTypes
        /\ gwCalls = <<GetCall(gwOp.id), DeleteCall(gwOp.id)>>

\* a delete went out for a typed facade, and one for the untyped endpoint
C8_Witness ==
    /\ gwOp.op = "DeleteEntity"
    /\ DeleteIssued
    /\ gwOp.expected = {CNAMERECORD, HOSTRECORD, EXTERNALHOST}
    /\ FetchedType = "AliasRecord"
    /\ gwOut.kind = "deleted"

\* C9: the type expectation is checked before the deletion policy: a type
\* outside a non-empty expectedTypes gives ErrEntityTypeMismatch whether or
\* not it is deletable, and ErrDeleteNotAllowed is only returned when the type
\* expectation passed or expectedTypes is empty.
C9_TypeGuardBeforePolicy ==
    (gwOp.op = "DeleteEntity" /\ FetchedTyped) =>
        /\ (gwOp.expected # {} /\ FetchedType \notin gwOp.expected)
              => (gwOut.kind = "ErrEntityTypeMismatch" /\ ~DeleteIssued)
        /\ gwOut.kind = "ErrDeleteNotAllowed"
              => (gwOp.expected = {} \/ FetchedType \in gwOp.expected)

\* an entity that fails both guards is reported as a type mismatch
C9_Witness ==
    /\ gwOp.op = "DeleteEntity"
    /\ FetchedTyped
    /\ gwOp.expected = {HOSTRECORD}
    /\ FetchedType = "Configuration"
    /\ gwOut.kind = "ErrEntityTypeMismatch"

\* C10: GetEntity returns ErrEntityNotFound and no entity when the decoded
\* wire entity has id 0 and no name, no type and no properties.
C10_EmptyWireIsNotFound ==
    (/\ gwOp.op = "GetEntity"
     /\ gwOp.reply.kind = "json"
     /\ gwOp.reply.wire.id = 0
     /\ gwOp.reply.wire.name = None
     /\ gwOp.reply.wire.type = None
     /\ gwOp.reply.wire.properties = None)
        => (gwOut.kind = "ErrEntityNotFound" /\ gwOut.entity = None)

C10_Witness ==
    /\ gwOp.op = "GetEntity"
    /\ gwOp.reply = [kind |-> "json", wire |-> EmptyWire]
    /\ gwOut.kind = "ErrEntityNotFound"

\* the last gateway operation decoded an upstream answer that holds an empty
\* wire entity
DecodedEmptyWire ==
    \/ /\ gwOp.op = "GetEntity"
       /\ gwOp.reply.kind = "json" /\ IsEmpty(gwOp.reply.wire)
    \/ /\ gwOp.op = "GetEntities"
       /\ gwOp.reply.kind = "json"
       /\ \E i \in 1..Len(gwOp.reply.list) : IsEmpty(gwOp.reply.list[i])
    \/ /\ gwOp.op = "AssignIpAddress"
       /\ GetConfigID(gwOp.configReply).kind = "ok"
       /\ gwOp.reply.kind = "json" /\ IsEmpty(gwOp.reply.wire)

\* C11 (as claimed): every operation that decodes an upstream answer holding
\* an empty wire entity (GetEntity, the list operation, IP assignment) rejects
\* it: the operation returns an error, it neither returns an Entity made of it
\* nor runs into the dereference of the absent type.
C11_EmptyWireAlwaysRejected ==
    DecodedEmptyWire => gwOut.kind \notin {"ok", "panic", "none"}

\* C12 (as claimed): an Entity with a non-empty properties map that is written
\* in wire form (ToBluecatJSON) and read back (ToEntity, ConvertToMap) comes
\* back with the same id, name, type and properties, whatever characters its
\* keys and values contain.
C12_RoundTripIsIdentity ==
    (gwOp.op = "RoundTrip" /\ DOMAIN gwOp.entity.properties # {}) =>
        gwOut.entity = Some(gwOp.entity)

\* the count the last list operation sent upstream
SentCount == gwCalls[1].count

C14_EmptyListIsNoError ==
    (gwOp.op = "GetEntities" /\ gwOp.reply = [kind |-> "json", list |-> <<>>]) =>
        gwOut = ListResult("ok", <<>>)

C14_Witness ==
    /\ gwOp.op = "GetEntities"
    /\ gwOp.reply.kind = "json"
    /\ Len(gwOp.reply.list) = 0
    /\ gwOut.kind = "ok"
    /\ Len(gwOut.entities) = 0

HintQueryIssued == \E i \in 1..Len(gwCalls) : gwCalls[i].route = HintRoute

\* C15: GetEntitiesByHintHelper looks the configuration container up first
\* and issues the hint query only after it got a container id, as the second
\* call and with that id; when the container lookup fails or returns no
\* entity the operation returns an error and issues no hint query.
C15_ContainerBeforeHintQuery ==
    (gwOp.op = "GetEntitiesByHint" /\ Len(gwCalls) > 0) =>
        /\ gwCalls[1] = ListCall(0, 1, 0, CONFIGURATION)
        /\ HintQueryIssued =>
              /\ Len(gwCalls) = 2
              /\ gwCalls[2].route = HintRoute
              /\ GetConfigID(gwOp.configReply).kind = "ok"
              /\ gwCalls[2].containerId = gwOp.configReply.list[1].id
        /\ (\/ gwOp.configReply.kind \in {"err", "badjson"}
            \/ gwOp.configReply.list = <<>>)
              => /\ ~HintQueryIssued
                 /\ gwOut.kind \in {"RequestError", "UnmarshalError", "NoContainer"}

\* the upstream has no configuration: one call went out, the hint query did not
C15_Witness ==
    /\ gwOp.op = "GetEntitiesByHint"
    /\ gwOp.configReply = [kind |-> "json", list |-> <<>>]
    /\ Len(gwCalls) = 1
    /\ gwOut.kind = "NoContainer"

\* positions of the calls to a route among the calls of the last operation
CallsTo(route) == {i \in 1..Len(gwCalls) : gwCalls[i].route = route}

\* AddMacAddress of the last CreateMacAddress returned an object id
AddSucceeded ==
    /\ GetConfigID(gwOp.configReply).kind = "ok"
    /\ gwOp.addReply.kind = "json"

\* C16: CreateMacAddress issues the pool-association call exactly when a pool
\* id was given (PoolId # 0) and AddMacAddress succeeded; it is issued once,
\* and after the add call.
C16_AssociateIffPoolAndAdded ==
    gwOp.op = "CreateMacAddress" =>
        /\ (CallsTo("/associateMACAddressWithPool") # {})
              <=> (gwOp.mac.poolId # 0 /\ AddSucceeded)
        /\ Cardinality(CallsTo("/associateMACAddressWithPool")) <= 1
        /\ \A i \in CallsTo("/associateMACAddressWithPool") :
              /\ CallsTo("/addMACAddress") # {}
              /\ \A j \in CallsTo("/addMACAddress") : j < i

\* an address was added and then put into pool 3
C16_Witness ==
    /\ gwOp.op = "CreateMacAddress"
    /\ gwOp.mac.poolId = 3
    /\ Len(gwCalls) = 3
    /\ gwCalls[2].route = "/addMACAddress"
    /\ gwCalls[3].route = "/associateMACAddressWithPool"
    /\ gwOut = MacResult("ok", 9)

\* C17: when the add succeeded and the pool association failed,
\* CreateMacAddress returns an error and no object id, and the association is
\* the last call it issued: nothing undoes the add.
C17_NoCompensationAfterFailedAssociate ==
    (gwOp.op = "CreateMacAddress" /\ AddSucceeded /\ gwOp.mac.poolId # 0 /\ gwOp.assocErr) =>
        /\ gwOut = MacResult("RequestError", -1)
        /\ gwCalls = << ListCall(0, 1, 0, CONFIGURATION),
                        AddCall(5, gwOp.mac.address),
                        AssociateCall(5, gwOp.mac.address, gwOp.mac.poolId) >>

C17_Witness ==
    /\ gwOp.op = "CreateMacAddress"
    /\ AddSucceeded
    /\ gwOp.mac.poolId = 3
    /\ gwOp.assocErr
    /\ gwOut.kind = "RequestError"
    /\ Len(gwCalls) = 3

\* the last UpdateMacAddress had new properties and its lookup of the address
\* returned an entity
UpdateHasEntity ==
    /\ gwOp.op = "UpdateMacAddress"
    /\ DOMAIN gwOp.mac.properties # {}
    /\ GetConfigID(gwOp.macConfigReply).kind = "ok"
    /\ gwOp.macReply.kind = "json"
    /\ ~IsEmpty(gwOp.macReply.wire)

\* the properties the upstream holds for the address
ExistingProperties == ToEntity(gwOp.macReply.wire).properties

\* an update went out whose entity holds the upstream properties overridden
\* by the new ones, and whose body reads back as the same map
MergedUpdateSent ==
    /\ Cardinality(CallsTo("/update")) = 1
    /\ \A i \in CallsTo("/update") :
          /\ i = Len(gwCalls)
          /\ DOMAIN gwCalls[i].entity.properties
                = (DOMAIN ExistingProperties) \cup (DOMAIN gwOp.mac.properties)
          /\ \A k \in DOMAIN gwOp.mac.properties :
                gwCalls[i].entity.properties[k] = gwOp.mac.properties[k]
          /\ \A k \in (DOMAIN ExistingProperties) \ (DOMAIN gwOp.mac.properties) :
                gwCalls[i].entity.properties[k] = ExistingProperties[k]
          /\ ConvertToMap(gwCalls[i].body.properties[1], "|") = gwCalls[i].entity.properties

\* the pool association of the last UpdateMacAddress was attempted and failed
ReassociationFailed ==
    /\ gwOp.mac.poolId # 0
    /\ (GetConfigID(gwOp.configReply).kind # "ok" \/ gwOp.assocErr)

\* C18 (as claimed): UpdateMacAddress with new properties sends the merged
\* entity to update whether or not a pool was given and whatever the outcome
\* of the pool association.
C18_MergeWhateverReassociation ==
    UpdateHasEntity => MergedUpdateSent

\* C18 (amended): UpdateMacAddress with new properties sends the merged entity
\* to update when no pool was given or the pool association succeeded; when
\* the association was attempted and failed it returns that error and sends
\* neither the lookup of the address nor the update.
C18_MergeUnlessReassociationFailed ==
    UpdateHasEntity =>
        /\ ~ReassociationFailed => MergedUpdateSent
        /\ ReassociationFailed =>
              /\ CallsTo("/update") = {}
              /\ CallsTo("/getMACAddress") = {}
              /\ gwOut.kind \in {"RequestError", "NoContainer"}

\* pool 3 was associated, then a=z was merged over a=x|b=y
C18_Witness ==
    /\ UpdateHasEntity
    /\ gwOp.mac.poolId = 3
    /\ gwOp.mac.properties = MapPut(EmptyMap, MacKeyA, <<"z">>)
    /\ DOMAIN ExistingProperties = {MacKeyA, MacKeyB}
    /\ Len(gwCalls) = 5
    /\ gwCalls[5].entity.properties[MacKeyA] = <<"z">>
    /\ gwCalls[5].entity.properties[MacKeyB] = <<"y">>
    /\ gwOut.kind = "ok"

GetFacades == {"NetworkService.GetEntity", "RecordService.GetEntity"}
DeleteFacades == {"RecordService.DeleteEntity", "IpAddressService.DeleteIpAddress"}

\* the last facade operation reached its lookup by id
FacadeLookedUp == \E i \in 1..Len(gwCalls) : gwCalls[i].route = "/getEntityById"

\* C19: a typed facade returns from its get only an entity whose type is in
\* the facade's expected set, and issues the delete only for an entity whose
\* fetched type is in that set; an entity fetched by id with a type outside
\* the set gives ErrEntityTypeMismatch, and no delete.
C19_FacadeTypeSet ==
    /\ (gwOp.op \in GetFacades /\ gwOut.kind = "ok")
          => gwOut.entity[1].type \in gwOp.expected
    /\ (gwOp.op \in DeleteFacades /\ DeleteIssued)
          => (FetchedTyped /\ FetchedType \in gwOp.expected)
    /\ (/\ gwOp.op \in GetFacades \cup DeleteFacades
        /\ FacadeLookedUp
        /\ FetchedTyped
        /\ FetchedType \notin gwOp.expected)
          => (gwOut.kind = "ErrEntityTypeMismatch" /\ ~DeleteIssued)
    /\ gwOp.op \in {"NetworkService.GetEntity"} => gwOp.expected = {"IP4Network"}
    /\ gwOp.op \in {"RecordService.GetEntity", "RecordService.DeleteEntity"}
          => gwOp.expected = {"AliasRecord", "HostRecord", "ExternalHostRecord"}
    /\ gwOp.op = "IpAddressService.DeleteIpAddress" => gwOp.expected = {"IP4Address"}

\* the record facade was asked to delete an IP address: deletable by policy,
\* refused by type
C19_Witness ==
    /\ gwOp.op = "RecordService.DeleteEntity"
    /\ FetchedTyped
    /\ FetchedType = "IP4Address"
    /\ gwOut.kind = "ErrEntityTypeMismatch"
    /\ ~DeleteIssued

\* C20: one call of parentIdFromCidr hands at most 10 candidates to the IP
\* lookup, whatever the CIDR and whichever lookups fail; every candidate whose
\* IP lookup or parent lookup failed is counted, and the count never passes 10.
C20_AtMostTenProbes ==
    gwOp.op = "parentIdFromCidr" =>
        /\ Len(gwCalls) <= MaxProbes
        /\ gwOp.counter <= MaxProbes
        /\ gwOp.counter = gwOp.ipFailures + gwOp.parentFailures
        /\ Len(gwCalls) = gwOp.counter + (IF gwOut.kind = "ok" THEN 1 ELSE 0)

\* ten candidates failed, some at the IP lookup and some at the parent lookup
C20_Witness ==
    /\ gwOp.op = "parentIdFromCidr"
    /\ gwOut.kind = "NoParentFound"
    /\ Len(gwCalls) = MaxProbes
    /\ gwOp.ipFailures > 0
    /\ gwOp.parentFailures > 0

\* parentIdFromCidr has returned a parent id
ResolverFound == gwOp.op = "parentIdFromCidr" /\ gwOut.kind = "ok"

\* C21: parentIdFromCidr returns the parent id given for the first candidate
\* whose IP lookup and parent lookup both succeed: when it returns an id,
\* every candidate probed before the last one failed and was counted, the
\* last candidate probed is the one that succeeded, and no candidate is
\* probed after it (the k-th succeeds: exactly k probes).
C21_FirstSuccessStops ==
    /\ [](ResolverFound =>
            /\ Len(gwCalls) = gwOp.counter + 1
            /\ gwCalls[Len(gwCalls)].address = gwOp.ip
            /\ gwOut.parentId \in {r.wire.id : r \in {p \in ParentReplies :
                                        p.kind = "json" /\ ~IsEmpty(p.wire)}})
    /\ [][ResolverFound => (gwOp'.op = "none" /\ gwCalls' = <<>>)]_vars

\* in 10.0.0.0/29 the third address was the first to succeed
C21_Witness ==
    /\ ResolverFound
    /\ gwOp.cidr = Cidr("ok", <<10, 0, 0, 0>>, 29)
    /\ Len(gwCalls) = 3
    /\ gwCalls[3].address = <<10, 0, 0, 2>>
    /\ gwOp.counter = 2

\* parentIdFromCidr has given up
ResolverGaveUp == gwOp.op = "parentIdFromCidr" /\ gwOut.kind = "NoParentFound"

\* the number of addresses of a network with the given prefix length, as far
\* as it matters to a loop of at most MaxProbes passes
CandidatesIn(bits) == IF 32 - bits > 3 THEN MaxProbes ELSE 2^(32 - bits)

\* C22 (as claimed): for every valid CIDR, when no probe succeeds
\* parentIdFromCidr fails with NoParentFound after exactly 10 probes.
C22_ExactlyTenProbes ==
    /\ ResolverGaveUp => Len(gwCalls) = MaxProbes
    /\ (gwOp.op = "parentIdFromCidr" /\ gwOp.cidr.kind = "ok"
          /\ gwOut.kind \notin {"running", "ok"}) => gwOut.kind = "NoParentFound"

\* C22 (amended): for a valid CIDR, when no probe succeeds parentIdFromCidr
\* fails with NoParentFound after as many probes as the network has
\* addresses, and after exactly 10 when it has 10 or more.
C22_TenProbesOrWholeRange ==
    /\ ResolverGaveUp =>
          /\ Len(gwCalls) = CandidatesIn(gwOp.cidr.bits)
          /\ gwOp.counter = Len(gwCalls)
          /\ gwOp.cidr.kind = "ok"
    /\ (gwOp.op = "parentIdFromCidr" /\ gwOp.cidr.kind = "ok"
          /\ gwOut.kind \notin {"running", "ok"}) => gwOut.kind = "NoParentFound"

\* ten addresses of a /24 were tried and none had a parent
C22_Witness ==
    /\ ResolverGaveUp
    /\ gwOp.cidr.bits = 24
    /\ Len(gwCalls) = MaxProbes

\* an IPv4 address as two numbers: its first byte, and its last three bytes
\* read as a big-endian integer
Low24(ip) == (ip[2] * 256 + ip[3]) * 256 + ip[4]

\* the address n steps after ip, counting modulo 2^32
AddressPlus(ip, n) ==
    LET low == Low24(ip) + n
        top == (ip[1] + low \div 16777216) % 256
        l == low % 16777216
    IN <<top, l \div 65536, (l \div 256) % 256, l % 256>>

\* C23: the k-th candidate handed to the IP lookup is the base address of the
\* network plus k-1, and the candidate the loop holds next is the base plus
\* the number of candidates tried, carries into the more significant bytes
\* included.
C23_ConsecutiveCandidates ==
    (gwOp.op = "parentIdFromCidr" /\ gwOp.cidr.kind = "ok") =>
        /\ gwOp.ipNet.ip = MaskIP(gwOp.cidr.ip, gwOp.cidr.bits)
        /\ \A k \in 1..Len(gwCalls) :
              gwCalls[k].address = AddressPlus(gwOp.ipNet.ip, k - 1)
        /\ gwOp.ip = AddressPlus(gwOp.ipNet.ip, gwOp.counter)

\* 10.0.255.248 to 10.0.255.255 were tried; the next address is 10.1.0.0
C23_Witness ==
    /\ ResolverGaveUp
    /\ gwOp.ipNet.ip = <<10, 0, 255, 248>>
    /\ Len(gwCalls) = 8
    /\ gwCalls[8].address = <<10, 0, 255, 255>>
    /\ gwOp.ip = <<10, 1, 0, 0>>

\* C24 (as claimed): MakeRequest sends a request upstream only after getToken
\* returned without error, with a non-empty token; when getToken fails the
\* call ends with that error and nothing is sent.
C24_NoSendWithoutToken ==
    [][\A t \in Threads :
         attempts'[t] > attempts[t] => (~gtErr[t] /\ tok[t] # NoToken)]_vars

\* C25 (as claimed): every request a call puts on the wire after a 401 is the
\* request of its first attempt: same method, route, query string and body.
C25_RetryIsSameCall ==
    \A t \in Threads :
        \A i \in 1..Len(sentReqs[t]) :
            /\ sentReqs[t][i].method = sentReqs[t][1].method
            /\ sentReqs[t][i].route = sentReqs[t][1].route
            /\ sentReqs[t][i].queryParam = sentReqs[t][1].queryParam
            /\ sentReqs[t][i].body = sentReqs[t][1].body

\* C26 (as claimed): a thread whose request was rejected with 401 clears the
\* cached token only if the cache still holds the token that request was sent
\* with; a token stored since by another thread is left alone.
C26_ClearOnlyOwnToken ==
    [][\A t \in Threads :
         (/\ pc[t] = "inv_clear" /\ pc'[t] = "inv_unlock"
          /\ tok[t] # NoToken /\ token # tok[t])
            => token' = token]_vars


\* the states in which a thread is inside one of the two locked sections
LockedSection == {"gt_check", "gt_login", "gt_unlock", "inv_clear", "inv_unlock"}

\* the states in which a thread is blocked in tokenLock.Lock()
LockRequest == {"gt_lock", "inv_lock"}

\* C27: no interleaving of concurrent MakeRequest calls deadlocks on the token
\* lock: a thread never requests the lock while it holds it, the lock is held
\* only inside getToken or the clearing section (so it is released after a
\* login that succeeded and after one that failed, and is not held while the
\* request itself is in flight), the holder can always take its next step, and
\* with the lock free every thread that requests it can take it.
C27_NoDeadlockOnTokenLock ==
    /\ \A t \in Threads : pc[t] \in LockRequest => tokenLock # t
    /\ \A t \in Threads : pc[t] \in {"idle", "send", "done"} => tokenLock # t
    /\ tokenLock # Unlocked =>
          /\ pc[tokenLock] \in LockedSection
          /\ ENABLED Step(tokenLock)
    /\ tokenLock = Unlocked =>
          \A t \in Threads : pc[t] \in LockRequest => ENABLED Step(t)

\* a thread waits for the lock while another is about to leave getToken after
\* a failed login
C27_Witness ==
    \E t \in Threads, u \in Threads :
        /\ pc[t] \in LockRequest
        /\ tokenLock = u
        /\ pc[u] = "gt_unlock"
        /\ gtErr[u]

\* C28: the caller's request context reaches the upstream call: once the
\* client has disconnected, an upstream call in flight is aborted, that is,
\* it ends MakeRequest with the error of client.Do and is never answered by a
\* status of the upstream.
C28_DisconnectAbortsUpstreamCall ==
    [][\A t \in Threads :
          (cancelled[t] /\ pc[t] = "send" /\ attempts'[t] > attempts[t]) =>
              /\ pc'[t] = "done"
              /\ result'[t] = SendError]_vars

\* the handlers that delete or fetch an entity
EntityHandlers == {"DeleteIpAddressHandler", "DeleteEntityHandler", "HandleGetEntityReq"}

\* the outward status each guard error is to be reported with
GuardStatus(err) ==
    IF err = "ErrEntityNotFound" THEN StatusNotFound
    ELSE IF err = "ErrDeleteNotAllowed" THEN StatusForbidden
    ELSE StatusConflict

GuardErrors == {"ErrEntityNotFound", "ErrDeleteNotAllowed", "ErrEntityTypeMismatch"}

\* C29: every handler that deletes or fetches an entity answers
\* ErrEntityNotFound with 404, ErrDeleteNotAllowed with 403 and
\* ErrEntityTypeMismatch with 409, so no two guard errors share a status and
\* none is answered with 500.
C29_GuardErrorsHaveDistinctStatuses ==
    (gwOp.op \in EntityHandlers /\ gwOut.kind = "responded" /\ gwOut.err \in GuardErrors)
        => gwOut.status = GuardStatus(gwOut.err)

\* the header of the running request is a bcrypt hash of the server's key
TokenIsHashOfPsk == \E s \in Salts : gwOp.htoken = GenerateFromPassword(gwOp.psk, s)

\* the path of the running request is one of the public URLs
PathIsPublic ==
    /\ ~ParseRequestURI(gwOp.requestURI).err
    /\ ParseRequestURI(gwOp.requestURI).Path \in PublicURLs

====
